---- MODULE Spec2Model ----
(***************************************************************************)
(* Local mixing of reversible circuits (obfustopia): the skeleton graph,   *)
(* the parallel level oracle, the convex-subset search, the replacement    *)
(* search, the splice and the mixing drivers.                              *)
(*                                                                         *)
(* Node indices are 1-based here (NodeIndex i of the code is i + 1).       *)
(* A gate is a triple <<target, control0, control1>>; a circuit is a       *)
(* sequence of gates; an input/output state is the set of wires that       *)
(* carry 1.                                                                *)
(***************************************************************************)
EXTENDS Integers, Sequences, FiniteSets, TLC

(***************************************************************************)
(* Bounds of the model.                                                    *)
(***************************************************************************)
\* number of wires n of the circuits whose functions are compared (the chain
\* of six gates that exercises the dispatch has thirteen)
NWires == 4
\* rayon's current_num_threads()
NumThreads == 2
\* total_mixing_steps of a run
MaxSteps == 2
\* max_convex_iterations (divided among the threads)
MaxConvexIter == 4
\* max_replacement_iterations (divided among the threads)
MaxReplIter == 2
\* the largest step total of a stage in a job configuration
MaxStageSteps == 2
\* the largest checkpoint_steps of a job configuration
MaxCheckpointSteps == 2

\* the most gates of a circuit given to a function that is applied on its own
MaxGates == 3
\* the number of nodes of a graph given to a search that is applied on its own
MaxNodes == 4

Wires == 0 .. (NWires - 1)
Workers == 1 .. NumThreads
None == 0

(***************************************************************************)
(* Small helpers on sets and sequences.                                    *)
(***************************************************************************)
Max2(a, b) == IF a >= b THEN a ELSE b

MinOf(S) == CHOOSE x \in S : \A y \in S : x <= y

MaxOf(S) == CHOOSE x \in S : \A y \in S : x >= y

RECURSIVE SetToSeq(_)
\* the elements of a finite set of integers in ascending order
SetToSeq(S) == IF S = {} THEN <<>> ELSE <<MinOf(S)>> \o SetToSeq(S \ {MinOf(S)})

SeqToSet(s) == {s[i] : i \in 1 .. Len(s)}

Front(s) == SubSeq(s, 1, Len(s) - 1)

Last(s) == s[Len(s)]

\* every arrangement of the finite set S as a sequence without repetition
Perms(S) == {p \in [1 .. Cardinality(S) -> S] : \A i, j \in 1 .. Cardinality(S) : i # j => p[i] # p[j]}

(***************************************************************************)
(* Gates and circuits.                                                     *)
(***************************************************************************)
Target(g) == g[1]

Controls(g) == {g[2], g[3]}

\* every gate over the wires W: target not a control, controls distinct
GatesOver(W) == {g \in W \X W \X W : g[1] # g[2] /\ g[1] # g[3] /\ g[2] # g[3]}

\* one step of a gate: inputs[target] ^= inputs[c0] & inputs[c1]
RunGate(g, x) ==
    IF g[2] \in x /\ g[3] \in x
    THEN (IF g[1] \in x THEN x \ {g[1]} ELSE x \cup {g[1]})
    ELSE x

RECURSIVE Run(_, _)
\* run the gates of a circuit left to right on the state x
Run(c, x) == IF c = <<>> THEN x ELSE Run(Tail(c), RunGate(Head(c), x))

\* two gates collide iff the target of one is a control of the other
CheckCollision(a, b) == Target(a) \in Controls(b) \/ Target(b) \in Controls(a)

RECURSIVE InputsBySize(_, _)
\* the inputs of the set ins in one order, those that set more wires first
InputsBySize(ins, k) ==
    IF ins = {} THEN <<>>
    ELSE LET of_size == {x \in ins : Cardinality(x) = k}
         IN IF of_size = {} THEN InputsBySize(ins, k - 1)
            ELSE LET x == CHOOSE y \in of_size : TRUE
                 IN <<x>> \o InputsBySize(ins \ {x}, k)

\* the rows <<inputs, outputs>> of the truth table of a circuit over the wires
\* W.  The code shuffles the rows; their order does not change which circuits
\* match all of them, and the model lists the inputs that set more wires first
TruthTable(c, W) ==
    LET ins == InputsBySize(SUBSET W, Cardinality(W))
    IN [k \in 1 .. Len(ins) |-> <<ins[k], Run(c, ins[k])>>]

\* the collision sets with the removal of intersecting collisions: j stays in
\* C[i] only if no k between i and j collides with both
CircuitToCollisionSetsReduced(c) ==
    [i \in 1 .. Len(c) |->
        {j \in (i + 1) .. Len(c) :
            /\ CheckCollision(c[i], c[j])
            /\ ~\E k \in (i + 1) .. (j - 1) :
                   CheckCollision(c[i], c[k]) /\ CheckCollision(c[k], c[j])}]

\* C[i] = { j > i : gate i collides with gate j }
CircuitToCollisionSets(c) ==
    [i \in 1 .. Len(c) |-> {j \in (i + 1) .. Len(c) : CheckCollision(c[i], c[j])}]

(***************************************************************************)
(* The skeleton graph: nodes is the sequence of node weights (gate ids),   *)
(* edges the set of directed edges between node indices.                   *)
(***************************************************************************)
Outgoing(E, u) == {e[2] : e \in {f \in E : f[1] = u}}

Incoming(E, u) == {e[1] : e \in {f \in E : f[2] = u}}

\* neighbors_directed(u, dir)
Neighbors(E, u, dir) == IF dir = "Outgoing" THEN Outgoing(E, u) ELSE Incoming(E, u)

\* a removal after which every node behind the removed one moves down by one
RemoveNodeShifting(g, a) ==
    LET last == Len(g.nodes)
        kept == {e \in g.edges : e[1] # a /\ e[2] # a}
        ren(i) == IF i > a THEN i - 1 ELSE i
    IN [nodes |-> [i \in 1 .. (last - 1) |-> IF i < a THEN g.nodes[i] ELSE g.nodes[i + 1]],
        edges |-> {<<ren(e[1]), ren(e[2])>> : e \in kept}]

\* Graph::remove_node: the node and its edges go, and the last node takes its index
RemoveNode(g, a) ==
    LET last == Len(g.nodes)
        kept == {e \in g.edges : e[1] # a /\ e[2] # a}
        ren(i) == IF i = last THEN a ELSE i
    IN [nodes |-> IF a = last THEN Front(g.nodes)
                  ELSE [i \in 1 .. (last - 1) |-> IF i = a THEN g.nodes[last] ELSE g.nodes[i]],
        edges |-> {<<ren(e[1]), ren(e[2])>> : e \in kept}]

RECURSIVE SkeletonEdgeList(_, _)
\* the edges handed to extend_with_edges, one after the other: for each i in
\* order the pairs (i, j) of the collision set of i
SkeletonEdgeList(cs, i) ==
    IF i > Len(cs) THEN <<>>
    ELSE LET js == SetToSeq(cs[i])
         IN [k \in 1 .. Len(js) |-> <<i, js[k]>>] \o SkeletonEdgeList(cs, i + 1)

\* one node per gate, weighted with its id, and the edges of the collision sets
CircuitToSkeletonGraph(c, ids) ==
    LET cs == CircuitToCollisionSets(c)
    IN [nodes |-> ids,
        edges |-> {e \in (1 .. Len(c)) \X (1 .. Len(c)) : e[2] \in cs[e[1]]}]

\* every order of the nodes, whatever the edges
AnyOrders(g) == Perms(1 .. Len(g.nodes))

\* toposort: an order of all the nodes in which no edge points backwards; the
\* set is empty iff the graph has a cycle
TopologicalOrders(g) ==
    {p \in Perms(1 .. Len(g.nodes)) :
        \A i, j \in 1 .. Len(g.nodes) : i < j => <<p[j], p[i]>> \notin g.edges}

\* Circuit::from_top_sorted_nodes: the gates of the nodes in the given order
FromTopSortedNodes(p, g, gm) == [i \in 1 .. Len(p) |-> gm[g.nodes[p[i]]]]

(***************************************************************************)
(* Depth-first searches.  A search state is a record                       *)
(*   [vwp, visited, path, ok, ovf]                                         *)
(* with vwp the visited_with_path set, ok the value dfs2 returns and ovf   *)
(* set when the recursion re-enters a node of its own path: on a cyclic    *)
(* graph the recursion of the code never returns (the stack overflows).    *)
(* Neighbours are visited in ascending index order.                        *)
(***************************************************************************)
DfsState(vwp, visited) ==
    [vwp |-> vwp, visited |-> visited, path |-> <<>>, ok |-> TRUE, ovf |-> FALSE]

RECURSIVE DfsVisitedFirst(_, _, _, _), DfsVisitedFirstEach(_, _, _, _)
\* dfs with the test of visited before the test of visited_with_path
DfsVisitedFirst(curr, st, E, dir) ==
    IF st.ovf THEN st
    ELSE IF curr \in st.visited THEN st
    ELSE IF curr \in st.vwp THEN [st EXCEPT !.vwp = @ \cup SeqToSet(st.path)]
    ELSE IF curr \in SeqToSet(st.path) THEN [st EXCEPT !.ovf = TRUE]
    ELSE LET st1 == [st EXCEPT !.path = Append(@, curr)]
             st2 == DfsVisitedFirstEach(SetToSeq(Neighbors(E, curr, dir)), st1, E, dir)
         IN IF st2.ovf THEN st2
            ELSE [st2 EXCEPT !.path = Front(@), !.visited = @ \cup {curr}]

DfsVisitedFirstEach(vs, st, E, dir) ==
    IF vs = <<>> THEN st
    ELSE DfsVisitedFirstEach(Tail(vs), DfsVisitedFirst(Head(vs), st, E, dir), E, dir)

RECURSIVE Dfs(_, _, _, _), DfsEach(_, _, _, _)
\* dfs: collect in vwp every node on a path from curr to a node of vwp
Dfs(curr, st, E, dir) ==
    IF st.ovf THEN st
    ELSE IF curr \in st.vwp THEN [st EXCEPT !.vwp = @ \cup SeqToSet(st.path)]
    ELSE IF curr \in st.visited THEN st
    ELSE IF curr \in SeqToSet(st.path) THEN [st EXCEPT !.ovf = TRUE]
    ELSE LET st1 == [st EXCEPT !.path = Append(@, curr)]
             st2 == DfsEach(SetToSeq(Neighbors(E, curr, dir)), st1, E, dir)
         IN IF st2.ovf THEN st2
            ELSE [st2 EXCEPT !.path = Front(@), !.visited = @ \cup {curr}]

\* the loop of dfs over the neighbours of a node
DfsEach(vs, st, E, dir) ==
    IF vs = <<>> THEN st ELSE DfsEach(Tail(vs), Dfs(Head(vs), st, E, dir), E, dir)

RECURSIVE Dfs2PruningEarlier(_, _, _, _, _, _, _), Dfs2PruningEarlierEach(_, _, _, _, _, _, _)
\* dfs2 that does not descend into nodes of level >= max_level - 1
Dfs2PruningEarlier(curr, st, E, dir, break_when, max_level, level) ==
    IF st.ovf \/ ~st.ok THEN st
    ELSE IF Cardinality(st.vwp) > break_when THEN [st EXCEPT !.ok = FALSE]
    ELSE IF curr \in st.vwp THEN [st EXCEPT !.vwp = @ \cup SeqToSet(st.path)]
    ELSE IF curr \in st.visited \/ level[curr] + 1 >= max_level THEN st
    ELSE IF curr \in SeqToSet(st.path) THEN [st EXCEPT !.ovf = TRUE]
    ELSE LET st1 == [st EXCEPT !.path = Append(@, curr)]
             st2 == Dfs2PruningEarlierEach(SetToSeq(Neighbors(E, curr, dir)), st1, E, dir,
                                           break_when, max_level, level)
         IN IF st2.ovf \/ ~st2.ok THEN st2
            ELSE [st2 EXCEPT !.path = Front(@), !.visited = @ \cup {curr}]

Dfs2PruningEarlierEach(vs, st, E, dir, break_when, max_level, level) ==
    IF vs = <<>> \/ st.ovf \/ ~st.ok THEN st
    ELSE Dfs2PruningEarlierEach(Tail(vs),
                                Dfs2PruningEarlier(Head(vs), st, E, dir, break_when,
                                                   max_level, level),
                                E, dir, break_when, max_level, level)

RECURSIVE Dfs2(_, _, _, _, _, _, _), Dfs2Each(_, _, _, _, _, _, _)
\* dfs2: dfs that gives up (ok = FALSE) once vwp holds more than break_when
\* nodes and that does not descend into nodes of level >= max_level
Dfs2(curr, st, E, dir, break_when, max_level, level) ==
    IF st.ovf \/ ~st.ok THEN st
    ELSE IF Cardinality(st.vwp) > break_when THEN [st EXCEPT !.ok = FALSE]
    ELSE IF curr \in st.vwp THEN [st EXCEPT !.vwp = @ \cup SeqToSet(st.path)]
    ELSE IF curr \in st.visited \/ level[curr] >= max_level THEN st
    ELSE IF curr \in SeqToSet(st.path) THEN [st EXCEPT !.ovf = TRUE]
    ELSE LET st1 == [st EXCEPT !.path = Append(@, curr)]
             st2 == Dfs2Each(SetToSeq(Neighbors(E, curr, dir)), st1, E, dir,
                             break_when, max_level, level)
         IN IF st2.ovf \/ ~st2.ok THEN st2
            ELSE [st2 EXCEPT !.path = Front(@), !.visited = @ \cup {curr}]

\* the loop of dfs2 over the neighbours of a node; it stops at the first failure
Dfs2Each(vs, st, E, dir, break_when, max_level, level) ==
    IF vs = <<>> \/ st.ovf \/ ~st.ok THEN st
    ELSE Dfs2Each(Tail(vs), Dfs2(Head(vs), st, E, dir, break_when, max_level, level),
                  E, dir, break_when, max_level, level)

(***************************************************************************)
(* blah: grow convex_set to desire_set_size nodes.  The candidate is the   *)
(* first outgoing neighbour outside the set met while iterating a hash     *)
(* set, so any such neighbour can be the candidate: Blah is the set of the *)
(* results the call can give, each [ok, set, ovf].                         *)
(***************************************************************************)
BlahResult(ok, S, ovf) == [ok |-> ok, set |-> S, ovf |-> ovf]

\* the closure search of blah for the candidate x: dfs2 from every node of S
BlahClosure(desire, S, E, level, x) ==
    Dfs2Each(SetToSeq(S), DfsState({x}, {}), E, "Outgoing", desire, level[x], level)

RECURSIVE Blah(_, _, _, _)
Blah(desire, S, E, level) ==
    IF Cardinality(S) = desire THEN {BlahResult(TRUE, S, FALSE)}
    ELSE LET cands == (UNION {Outgoing(E, s) : s \in S}) \ S
         IN IF cands = {} THEN {BlahResult(FALSE, S, FALSE)}
            ELSE UNION {
                   LET st == BlahClosure(desire, S, E, level, x)
                       new == st.vwp \ S
                   IN IF st.ovf THEN {BlahResult(FALSE, S, TRUE)}
                      ELSE IF ~st.ok THEN {BlahResult(FALSE, S, FALSE)}
                      ELSE IF Cardinality(new) + Cardinality(S) <= desire
                           THEN (IF Cardinality(S \cup new) < desire
                                 THEN Blah(desire, S \cup new, E, level)
                                 ELSE {BlahResult(TRUE, S \cup new, FALSE)})
                           ELSE {BlahResult(FALSE, S, FALSE)}
                   : x \in cands }

(***************************************************************************)
(* dfs_within_convex_set: the nodes of the set reachable from curr, in     *)
(* reverse post-order.  The successors are met in hash order, so the       *)
(* operator gives the set of the results [visited, top_sorted, ovf] over   *)
(* every order.  onpath is the recursion stack.                            *)
(***************************************************************************)
RECURSIVE DfsWithinOneSuccessor(_, _, _, _, _)
\* a search that follows one successor of a node only
DfsWithinOneSuccessor(curr, S, E, st, onpath) ==
    IF st.ovf THEN {st}
    ELSE IF curr \in st.visited THEN {st}
    ELSE IF curr \in onpath THEN {[st EXCEPT !.ovf = TRUE]}
    ELSE LET succs == Outgoing(E, curr) \cap S
             below == IF succs = {} THEN {st}
                      ELSE DfsWithinOneSuccessor(MinOf(succs), S, E, st, onpath \cup {curr})
         IN {IF st2.ovf THEN st2
             ELSE [st2 EXCEPT !.visited = @ \cup {curr}, !.top_sorted = <<curr>> \o @]
             : st2 \in below}

RECURSIVE DfsWithinConvexSet(_, _, _, _, _), DfsWithinEach(_, _, _, _, _)
DfsWithinConvexSet(curr, S, E, st, onpath) ==
    IF st.ovf THEN {st}
    ELSE IF curr \in st.visited THEN {st}
    ELSE IF curr \in onpath THEN {[st EXCEPT !.ovf = TRUE]}
    ELSE {IF st2.ovf THEN st2
          ELSE [st2 EXCEPT !.visited = @ \cup {curr}, !.top_sorted = <<curr>> \o @]
          : st2 \in DfsWithinEach(Outgoing(E, curr) \cap S, S, E, st, onpath \cup {curr})}

\* the loop over the successors inside the set, in every order
DfsWithinEach(todo, S, E, st, onpath) ==
    IF todo = {} THEN {st}
    ELSE UNION {UNION {DfsWithinEach(todo \ {v}, S, E, st2, onpath)
                       : st2 \in DfsWithinConvexSet(v, S, E, st, onpath)}
                : v \in todo}

(***************************************************************************)
(* is_collisions_set_weakly_connected: search from gate 1 (index 0 of the  *)
(* code) over the undirected graph of the collision sets.                  *)
(***************************************************************************)
\* the matrix with graph[i][j] set and graph[j][i] left out
DirectedGraphOnly(cs) ==
    {e \in (DOMAIN cs) \X (DOMAIN cs) : e[2] \in cs[e[1]]}

UndirectedGraph(cs) ==
    {e \in (DOMAIN cs) \X (DOMAIN cs) : e[2] \in cs[e[1]] \/ e[1] \in cs[e[2]]}

RECURSIVE WeaklyConnectedLoop(_, _, _, _, _)
\* the while loop: nodes_visited.len() < gate_count, pop, mark the neighbours
WeaklyConnectedLoop(ug, gate_count, all_nodes, nodes_visited, stack) ==
    IF ~(Cardinality(nodes_visited) < gate_count) THEN TRUE
    ELSE IF stack = <<>> THEN FALSE
    ELSE LET curr == Last(stack)
             found == {k \in all_nodes : <<curr, k>> \in ug}
         IN WeaklyConnectedLoop(ug, gate_count, all_nodes \ {curr},
                                nodes_visited \cup found \cup {curr},
                                Front(stack) \o SetToSeq(found))

IsCollisionsSetWeaklyConnected(cs) ==
    WeaklyConnectedLoop(UndirectedGraph(cs), Len(cs), DOMAIN cs, {}, <<1>>)

(***************************************************************************)
(* The splice of local_mixing_step: insert C_in, re-edge it against the    *)
(* predecessors, the successors and the outsiders of the convex subset,    *)
(* then remove the nodes of the subset.                                    *)
(***************************************************************************)
\* C_in' with its controls rewritten over the old wires and its targets left
\* as they are
CInGatesTargetKept(c_in_dash, new_to_old) ==
    [i \in 1 .. Len(c_in_dash) |->
        <<c_in_dash[i][1], new_to_old[c_in_dash[i][2]], new_to_old[c_in_dash[i][3]]>>]

\* C_in' rewritten over the old wires, with gate i getting the id latest_id + i
CInGates(c_in_dash, new_to_old) ==
    [i \in 1 .. Len(c_in_dash) |->
        <<new_to_old[c_in_dash[i][1]], new_to_old[c_in_dash[i][2]], new_to_old[c_in_dash[i][3]]>>]

ImmPredecessors(E, S) == (UNION {Incoming(E, s) : s \in S}) \ S

ImmSuccessors(E, S) == (UNION {Outgoing(E, s) : s \in S}) \ S

\* every node reached by dfs from the nodes of start in direction dir
\* (the visited set of the searches; the record carries ovf)
AllReached(E, start, dir) == DfsEach(SetToSeq(start), DfsState({}, {}), E, dir)

\* the splice without its pass over the outsiders
NoOutsiders(all_nodes, predecessors, successors, S, cin_set) == {}

\* the nodes that are neither predecessors nor successors of the subset, nor
\* in the subset, nor new
Outsiders(all_nodes, predecessors, successors, S, cin_set) ==
    {v \in all_nodes : v \notin (successors \cup predecessors) /\ v \notin (S \cup cin_set)}

\* a splice whose edges between C_in and the successors point to C_in
SplicePartsIntoCIn(g, gm, S, c_in) ==
    LET N == Len(g.nodes)
        E == g.edges
        c_in_nodes == [i \in 1 .. Len(c_in) |-> N + i]
        cs == CircuitToCollisionSets(c_in)
        preds == AllReached(E, ImmPredecessors(E, S), "Incoming")
        succs == AllReached(E, ImmSuccessors(E, S), "Outgoing")
        cin_set == {N + i : i \in 1 .. Len(c_in)}
        outsiders == Outsiders(1 .. (N + Len(c_in)), preds.visited, succs.visited, S, cin_set)
        gate(v) == gm[g.nodes[v]]
        colliding(v) == {i \in 1 .. Len(c_in) : CheckCollision(gate(v), c_in[i])}
    IN [ovf |-> preds.ovf \/ succs.ovf,
        c_in_nodes |-> c_in_nodes,
        predecessors |-> preds.visited,
        successors |-> succs.visited,
        outsiders |-> outsiders,
        edges_c_in |-> {<<N + e[1], N + e[2]>> : e \in {f \in (DOMAIN cs) \X (DOMAIN cs) : f[2] \in cs[f[1]]}},
        edges_preds |-> UNION {{<<v, N + i>> : i \in colliding(v)} : v \in preds.visited},
        edges_succs |-> UNION {{<<v, N + i>> : i \in colliding(v)} : v \in succs.visited},
        edges_outsiders |-> UNION {{<<v, N + i>> : i \in colliding(v)} : v \in outsiders}]

\* the node sets and the new edges of a splice
SpliceParts(g, gm, S, c_in) ==
    LET N == Len(g.nodes)
        E == g.edges
        c_in_nodes == [i \in 1 .. Len(c_in) |-> N + i]
        cs == CircuitToCollisionSets(c_in)
        preds == AllReached(E, ImmPredecessors(E, S), "Incoming")
        succs == AllReached(E, ImmSuccessors(E, S), "Outgoing")
        cin_set == {N + i : i \in 1 .. Len(c_in)}
        outsiders == Outsiders(1 .. (N + Len(c_in)), preds.visited, succs.visited, S, cin_set)
        gate(v) == gm[g.nodes[v]]
        colliding(v) == {i \in 1 .. Len(c_in) : CheckCollision(gate(v), c_in[i])}
    IN [ovf |-> preds.ovf \/ succs.ovf,
        c_in_nodes |-> c_in_nodes,
        predecessors |-> preds.visited,
        successors |-> succs.visited,
        outsiders |-> outsiders,
        edges_c_in |-> {<<N + e[1], N + e[2]>> : e \in {f \in (DOMAIN cs) \X (DOMAIN cs) : f[2] \in cs[f[1]]}},
        edges_preds |-> UNION {{<<v, N + i>> : i \in colliding(v)} : v \in preds.visited},
        edges_succs |-> UNION {{<<N + i, v>> : i \in colliding(v)} : v \in succs.visited},
        edges_outsiders |-> UNION {{<<v, N + i>> : i \in colliding(v)} : v \in outsiders}]

RECURSIVE RemoveAll(_, _, _)
\* remove the nodes of the subset one by one, each with its gate_map entry
RemoveAll(g, gm, order) ==
    IF order = <<>> THEN [graph |-> g, gate_map |-> gm]
    ELSE LET a == Head(order)
             id == g.nodes[a]
         IN RemoveAll(RemoveNode(g, a), [k \in (DOMAIN gm) \ {id} |-> gm[k]], Tail(order))

\* a splice that hands out latest_id before it adds one to it
SpliceReusingIds(g, gm, lid, S, c_in, order) ==
    LET parts == SpliceParts(g, gm, S, c_in)
        ell == Len(c_in)
        g1 == [nodes |-> g.nodes \o [i \in 1 .. ell |-> lid + i - 1],
               edges |-> g.edges \cup parts.edges_c_in \cup parts.edges_preds
                         \cup parts.edges_succs \cup parts.edges_outsiders]
        gm1 == [k \in (DOMAIN gm) \cup {lid + i - 1 : i \in 1 .. ell} |->
                  IF k \in DOMAIN gm /\ k < lid THEN gm[k] ELSE c_in[k - lid + 1]]
        r == RemoveAll(g1, gm1, order)
    IN [ovf |-> parts.ovf, graph |-> r.graph, gate_map |-> r.gate_map, latest_id |-> lid + ell]

\* the graph, gate_map and latest_id after the splice; order is the order in
\* which the hash set of the subset is iterated for the removals
Splice(g, gm, lid, S, c_in, order) ==
    LET parts == SpliceParts(g, gm, S, c_in)
        ell == Len(c_in)
        g1 == [nodes |-> g.nodes \o [i \in 1 .. ell |-> lid + i],
               edges |-> g.edges \cup parts.edges_c_in \cup parts.edges_preds
                         \cup parts.edges_succs \cup parts.edges_outsiders]
        gm1 == [k \in (DOMAIN gm) \cup {lid + i : i \in 1 .. ell} |->
                  IF k \in DOMAIN gm THEN gm[k] ELSE c_in[k - lid]]
        r == RemoveAll(g1, gm1, order)
    IN [ovf |-> parts.ovf, graph |-> r.graph, gate_map |-> r.gate_map, latest_id |-> lid + ell]

(***************************************************************************)
(* The replacement search.                                                 *)
(***************************************************************************)
\* what sample_circuit_with_base_gate_fast can write: ell_in gates over [0, n)
SampledCircuits(ell_in, n) == [1 .. ell_in -> GatesOver(0 .. (n - 1))]

\* the test with a comparison loop that stops after the first row
AcceptsOnFirstRow(random_circuit, circuit, permutations) ==
    /\ Run(random_circuit, permutations[1][1]) = permutations[1][2]
    /\ random_circuit # circuit
    /\ IsCollisionsSetWeaklyConnected(CircuitToCollisionSets(random_circuit))

\* the test without the connectivity check
AcceptsUnconnected(random_circuit, circuit, permutations) ==
    /\ \A k \in 1 .. Len(permutations) :
          Run(random_circuit, permutations[k][1]) = permutations[k][2]
    /\ random_circuit # circuit

\* the test without the comparison with the circuit itself
AcceptsSameCircuit(random_circuit, circuit, permutations) ==
    /\ \A k \in 1 .. Len(permutations) :
          Run(random_circuit, permutations[k][1]) = permutations[k][2]
    /\ IsCollisionsSetWeaklyConnected(CircuitToCollisionSets(random_circuit))

\* the test of one sampled circuit: the same outputs on every row of the
\* truth table, not the circuit itself, and a weakly connected collision graph
Accepts(random_circuit, circuit, permutations) ==
    /\ \A k \in 1 .. Len(permutations) :
          Run(random_circuit, permutations[k][1]) = permutations[k][2]
    /\ random_circuit # circuit
    /\ IsCollisionsSetWeaklyConnected(CircuitToCollisionSets(random_circuit))

(***************************************************************************)
(* State of a run of run_local_mixing.                                     *)
(***************************************************************************)
VARIABLES
    original_circuit, \* the circuit the run started from
    params,           \* [ell_out, ell_in, total_mixing_steps, debug] of the run
    skeleton_graph,   \* [nodes, edges]
    gate_map,         \* gate id -> gate
    latest_id,        \* the largest gate id handed out
    mixing_steps,     \* successful steps so far
    success,          \* what the last local_mixing_step returned ("none" before the first)
    pc,               \* where the run is: loop, level, convex, repl, returned, overflow, panic,
                      \* unimplemented
    stack,            \* graph_level: the shared stack of ready nodes
    degree,           \* graph_level: node -> [deg, lvl], the two atomics of a node, and
                      \* writes, the number of writes of level_slice at the node's index
    level,            \* graph_level: the level array
    lw,               \* graph_level: the locals of each worker
    nodes,            \* find_convex_fast: the shuffled seed pool (what is left of it)
    attempts,         \* find_convex_fast: the seeds popped from the pool so far
    cw,               \* find_convex_fast: the locals of each worker
    cout,             \* local_mixing_step: the convex subset, its order, wire maps and C_out
    rw,               \* find_replacement_circuit_fast: the locals of each worker
    job,              \* main.rs: the ObfuscationJob (configuration and progress counters)
    dpc,              \* main.rs: where run_obfuscation is
    call,             \* main.rs: the arguments of the last call of run_local_mixing
    job_file,         \* main.rs: the job whose serialization the file at job_path holds
    file_len,         \* main.rs: how many fields of that serialization are in the file
    skeleton_steps,   \* main.rs: the successful steps applied to the skeleton of this process
    loaded,           \* main.rs: run_obfuscation took the job from the file
    fn_input,         \* the argument of a function that is applied on its own
    fn_output         \* the function applied and its result

vars == <<original_circuit, params, skeleton_graph, gate_map, latest_id, mixing_steps,
          success, pc, stack, degree, level, lw, nodes, attempts, cw, cout, rw,
          job, dpc, call, job_file, file_len, skeleton_steps, loaded, fn_input, fn_output>>

\* the state of the job controller
driver_vars == <<job, dpc, call, job_file, file_len, skeleton_steps, loaded>>

\* the argument and the result of a function applied on its own
pure_vars == <<fn_input, fn_output>>

\* what a run of run_local_mixing never writes
run_vars == <<original_circuit, params, driver_vars, pure_vars>>

graph_vars == <<skeleton_graph, gate_map, latest_id>>

level_vars == <<stack, degree, level, lw>>

\* max_iterations / current_num_threads() of the two searches
ConvexBudget == MaxConvexIter \div NumThreads

ReplBudget == MaxReplIter \div NumThreads

\* the circuits a run starts from
GateS == <<0, 1, 2>>

GateM == <<1, 2, 3>>

GateQ == <<0, 2, 3>>

GateX == <<2, 0, 1>>

GateB == <<1, 0, 2>>

\* a chain of six gates, each with the target of the gate before it as a
\* control and two wires of its own: thirteen active wires
ChainCircuit == [i \in 1 .. 6 |-> <<2 * i, 2 * i - 2, 2 * i - 1>>]

\* the runs: a circuit, and the ell_out, ell_in and total_mixing_steps of the call
InitRuns ==
    { [circuit |-> <<GateS, GateM, GateQ, GateX>>, ell_out |-> 2, ell_in |-> 2,
       total_mixing_steps |-> MaxSteps - 1, debug |-> FALSE],
      [circuit |-> <<GateS, GateM, GateQ, GateX>>, ell_out |-> 2, ell_in |-> 2,
       total_mixing_steps |-> MaxSteps - 1, debug |-> TRUE],
      [circuit |-> <<GateS, GateM, GateB>>, ell_out |-> 2, ell_in |-> 2,
       total_mixing_steps |-> MaxSteps, debug |-> TRUE],
      [circuit |-> <<GateM, GateQ>>, ell_out |-> 2, ell_in |-> 2,
       total_mixing_steps |-> MaxSteps, debug |-> FALSE],
      [circuit |-> <<GateS, GateM, GateQ>>, ell_out |-> 1, ell_in |-> 3,
       total_mixing_steps |-> MaxSteps - 1, debug |-> FALSE],
      [circuit |-> ChainCircuit, ell_out |-> Len(ChainCircuit), ell_in |-> Len(ChainCircuit),
       total_mixing_steps |-> MaxSteps - 1, debug |-> FALSE] }

IdleLevelWorker == [pc |-> "exit", curr_level |-> 0, todo |-> <<>>, ready |-> <<>>,
                    next |-> None, was_one |-> FALSE]

IdleConvexWorker == [pc |-> "done", curr_iter |-> 0, start_node |-> None, return_set |-> {}]

IdleReplWorker == [pc |-> "done", curr_iter |-> 0, replacement_circuit |-> <<>>]

NoCout == [start |-> None, subset |-> {}, top_sorted |-> <<>>, old_to_new |-> <<>>,
           new_to_old |-> <<>>, c_out |-> <<>>, permutations |-> <<>>]

\* no job: the value of job and job_file when there is none
NoJob == [strategy |-> "none", total_steps |-> 0, inflationary_stage_steps |-> 0,
          kneading_stage_steps |-> 0, checkpoint_steps |-> 0, curr_total_steps |-> 0,
          curr_inflationary_stage_steps |-> 0, curr_kneading_stage_steps |-> 0,
          curr_circuit |-> 0]

NoCall == [stage |-> "none", ell_out |-> 0, ell_in |-> 0, to_checkpoint |-> FALSE,
           success |-> FALSE]

\* the job controller is not running
DriverIdle ==
    /\ job = NoJob
    /\ dpc = "idle"
    /\ call = NoCall
    /\ job_file = NoJob
    /\ file_len = 0
    /\ skeleton_steps = 0
    /\ loaded = FALSE

\* the state the searches leave behind between two steps
SearchIdle ==
    /\ stack = <<>>
    /\ degree = <<>>
    /\ level = <<>>
    /\ lw = [w \in Workers |-> IdleLevelWorker]
    /\ nodes = {}
    /\ attempts = 0
    /\ cw = [w \in Workers |-> IdleConvexWorker]
    /\ cout = NoCout
    /\ rw = [w \in Workers |-> IdleReplWorker]

\* the locals of the searches go out of scope when a step returns
SearchReset ==
    /\ stack' = <<>>
    /\ degree' = <<>>
    /\ level' = <<>>
    /\ lw' = [w \in Workers |-> IdleLevelWorker]
    /\ nodes' = {}
    /\ attempts' = 0
    /\ cw' = [w \in Workers |-> IdleConvexWorker]
    /\ cout' = NoCout
    /\ rw' = [w \in Workers |-> IdleReplWorker]

\* the skeleton, gate_map and latest_id built from a circuit with ids 0 .. m-1
Init ==
    /\ \E run \in InitRuns :
          /\ original_circuit = run.circuit
          /\ params = [ell_out |-> run.ell_out, ell_in |-> run.ell_in,
                       total_mixing_steps |-> run.total_mixing_steps, debug |-> run.debug]
    /\ skeleton_graph = CircuitToSkeletonGraph(original_circuit,
                            [i \in 1 .. Len(original_circuit) |-> i - 1])
    /\ gate_map = [id \in 0 .. (Len(original_circuit) - 1) |-> original_circuit[id + 1]]
    /\ latest_id = Len(original_circuit) - 1
    /\ mixing_steps = 0
    /\ success = "none"
    /\ pc = "loop"
    /\ SearchIdle
    /\ DriverIdle
    /\ fn_input = <<>>
    /\ fn_output = <<>>

(***************************************************************************)
(* run_local_mixing: the loop, and the start of a local_mixing_step, which *)
(* begins with find_convex_fast and so with graph_level.                   *)
(***************************************************************************)
NodeSet == 1 .. Len(skeleton_graph.nodes)

\* graph_level up to the start of the workers: the in-degrees, the sources on
\* the stack (pushed by a parallel map, so in any order) and a zeroed array
StartStep ==
    /\ pc = "loop"
    /\ mixing_steps < params.total_mixing_steps
    /\ pc' = "level"
    /\ degree' = [n \in NodeSet |->
                    [deg |-> Cardinality(Incoming(skeleton_graph.edges, n)), lvl |-> 0,
                     writes |-> 0]]
    /\ stack' \in Perms({n \in NodeSet : Incoming(skeleton_graph.edges, n) = {}})
    /\ level' = [n \in NodeSet |-> 0]
    /\ lw' = [w \in Workers |-> [IdleLevelWorker EXCEPT !.pc = "take"]]
    /\ UNCHANGED <<run_vars, graph_vars, mixing_steps, success, nodes, attempts, cw, cout, rw>>

\* the loop ends and the graph is returned
Finish ==
    /\ pc = "loop"
    /\ ~(mixing_steps < params.total_mixing_steps)
    /\ pc' = "returned"
    /\ UNCHANGED <<run_vars, graph_vars, mixing_steps, success, level_vars, nodes, attempts, cw, cout, rw>>

(***************************************************************************)
(* graph_level: the workers.                                               *)
(***************************************************************************)
\* a take that looks at the stack only: a worker that finds it empty leaves
\* with the node it kept
LvTakeFromStackOnly(w) ==
    /\ pc = "level"
    /\ lw[w].pc = "take"
    /\ IF stack # <<>>
       THEN LET curr == Last(stack)
                curr_level == degree[curr].lvl
                succs == SetToSeq(Outgoing(skeleton_graph.edges, curr))
            IN /\ stack' = IF lw[w].next # None THEN Append(Front(stack), lw[w].next)
                            ELSE Front(stack)
               /\ level' = [level EXCEPT ![curr] = curr_level]
               /\ degree' = [degree EXCEPT ![curr].writes = @ + 1]
               /\ lw' = [lw EXCEPT ![w] = [pc |-> IF succs = <<>> THEN "take" ELSE "sub",
                                           curr_level |-> curr_level, todo |-> succs,
                                           ready |-> <<>>, next |-> None, was_one |-> FALSE]]
       ELSE /\ lw' = [lw EXCEPT ![w] = IdleLevelWorker]
            /\ UNCHANGED <<stack, level, degree>>
    /\ UNCHANGED <<run_vars, graph_vars, mixing_steps, success, pc, nodes, attempts, cw, cout, rw>>

\* next.take().or_else(pop), then load the node's level and write it to the array
LvTake(w) ==
    /\ pc = "level"
    /\ lw[w].pc = "take"
    /\ IF lw[w].next # None \/ stack # <<>>
       THEN LET curr == IF lw[w].next # None THEN lw[w].next ELSE Last(stack)
                curr_level == degree[curr].lvl
                succs == SetToSeq(Outgoing(skeleton_graph.edges, curr))
            IN /\ stack' = IF lw[w].next # None THEN stack ELSE Front(stack)
               /\ level' = [level EXCEPT ![curr] = curr_level]
               /\ degree' = [degree EXCEPT ![curr].writes = @ + 1]
               /\ lw' = [lw EXCEPT ![w] = [pc |-> IF succs = <<>> THEN "take" ELSE "sub",
                                           curr_level |-> curr_level, todo |-> succs,
                                           ready |-> <<>>, next |-> None, was_one |-> FALSE]]
       ELSE /\ lw' = [lw EXCEPT ![w] = IdleLevelWorker]
            /\ UNCHANGED <<stack, level, degree>>
    /\ UNCHANGED <<run_vars, graph_vars, mixing_steps, success, pc, nodes, attempts, cw, cout, rw>>

\* a fetch_sub after which every successor is kept, whatever it returned
LvFetchSubKeepingAll(w) ==
    /\ pc = "level"
    /\ lw[w].pc = "sub"
    /\ LET succ == Head(lw[w].todo)
       IN /\ degree' = [degree EXCEPT ![succ].deg = IF @ > 0 THEN @ - 1 ELSE 0]
          /\ lw' = [lw EXCEPT ![w].pc = "upd", ![w].was_one = TRUE]
    /\ UNCHANGED <<run_vars, graph_vars, mixing_steps, success, pc, stack, level, nodes, attempts, cw, cout, rw>>

\* succ_degree.fetch_sub(1)
LvFetchSub(w) ==
    /\ pc = "level"
    /\ lw[w].pc = "sub"
    /\ LET succ == Head(lw[w].todo)
       IN /\ degree' = [degree EXCEPT ![succ].deg = @ - 1]
          /\ lw' = [lw EXCEPT ![w].pc = "upd", ![w].was_one = (degree[succ].deg = 1)]
    /\ UNCHANGED <<run_vars, graph_vars, mixing_steps, success, pc, stack, level, nodes, attempts, cw, cout, rw>>

\* succ_level.fetch_update(max(succ_level, curr_level + 1)); the successor is
\* kept when the fetch_sub before it returned 1; after the last successor
\* next = succs.pop()
LvFetchUpdate(w) ==
    /\ pc = "level"
    /\ lw[w].pc = "upd"
    /\ LET succ == Head(lw[w].todo)
           rest == Tail(lw[w].todo)
           succs == IF lw[w].was_one THEN Append(lw[w].ready, succ) ELSE lw[w].ready
       IN /\ degree' = [degree EXCEPT ![succ].lvl = Max2(@, lw[w].curr_level + 1)]
          /\ lw' = [lw EXCEPT ![w] =
                IF rest # <<>>
                THEN [@ EXCEPT !.pc = "sub", !.todo = rest, !.ready = succs, !.was_one = FALSE]
                ELSE IF Len(succs) <= 1
                THEN [@ EXCEPT !.pc = "take", !.todo = <<>>, !.ready = <<>>, !.was_one = FALSE,
                               !.next = IF succs = <<>> THEN None ELSE Last(succs)]
                ELSE [@ EXCEPT !.pc = "push", !.todo = <<>>, !.ready = Front(succs),
                               !.was_one = FALSE, !.next = Last(succs)]]
    /\ UNCHANGED <<run_vars, graph_vars, mixing_steps, success, pc, stack, level, nodes, attempts, cw, cout, rw>>

\* stack.extend(succs) when more than one successor became ready
LvPush(w) ==
    /\ pc = "level"
    /\ lw[w].pc = "push"
    /\ stack' = stack \o lw[w].ready
    /\ lw' = [lw EXCEPT ![w].pc = "take", ![w].ready = <<>>]
    /\ UNCHANGED <<run_vars, graph_vars, mixing_steps, success, pc, degree, level, nodes, attempts, cw, cout, rw>>

\* every worker has left: graph_level returns the array, and find_convex_fast
\* shuffles the node indices into the seed pool and starts its workers
LvJoin ==
    /\ pc = "level"
    /\ \A w \in Workers : lw[w].pc = "exit"
    /\ pc' = "convex"
    /\ nodes' = NodeSet
    /\ attempts' = 0
    /\ cw' = [w \in Workers |->
                [IdleConvexWorker EXCEPT !.pc = IF 0 < ConvexBudget THEN "pop" ELSE "done"]]
    /\ stack' = <<>>
    /\ degree' = <<>>
    /\ UNCHANGED <<run_vars, graph_vars, mixing_steps, success, level, lw, cout, rw>>

(***************************************************************************)
(* find_convex_fast: the workers.                                          *)
(***************************************************************************)
\* the worker whose Some find_map_any keeps.  The workers of a search share no
\* state but the pool, so whichever result find_map_any keeps when two workers
\* return Some, the same run with that worker returning first exists: the
\* model keeps the first result and drops a later one
ConvexFound == {w \in Workers : cw[w].return_set # {}}

\* nodes.lock().pop(): the pool was shuffled, so any node left can come out;
\* on an empty pool the worker returns None
CvPop(w) ==
    /\ pc = "convex"
    /\ cw[w].pc = "pop"
    /\ \/ /\ nodes # {}
          /\ \E idx \in nodes :
                /\ nodes' = nodes \ {idx}
                /\ attempts' = attempts + 1
                /\ cw' = [cw EXCEPT ![w].pc = "blah", ![w].start_node = idx]
       \/ /\ nodes = {}
          /\ cw' = [cw EXCEPT ![w] = IdleConvexWorker]
          /\ UNCHANGED <<nodes, attempts>>
    /\ UNCHANGED <<run_vars, graph_vars, mixing_steps, success, pc, level_vars, cout, rw>>

\* a worker that does not count the iteration when blah fails
CvBlahNotCounting(w) ==
    /\ pc = "convex"
    /\ cw[w].pc = "blah"
    /\ \E r \in Blah(params.ell_out, {cw[w].start_node}, skeleton_graph.edges, level) :
          IF r.ovf
          THEN /\ pc' = "overflow"
               /\ UNCHANGED <<nodes, attempts, cw>>
          ELSE IF r.ok
          THEN /\ cw' = [cw EXCEPT ![w] = IF ConvexFound = {}
                                           THEN [@ EXCEPT !.pc = "done", !.curr_iter = 0,
                                                          !.return_set = r.set]
                                           ELSE IdleConvexWorker]
               /\ nodes' = {}
               /\ UNCHANGED <<pc, attempts>>
          ELSE /\ cw' = [cw EXCEPT ![w].start_node = None, ![w].pc = "pop"]
               /\ UNCHANGED <<pc, nodes, attempts>>
    /\ UNCHANGED <<run_vars, graph_vars, mixing_steps, success, level_vars, cout, rw>>

\* a worker that leaves the pool as it is when blah succeeds
CvBlahKeepingPool(w) ==
    /\ pc = "convex"
    /\ cw[w].pc = "blah"
    /\ \E r \in Blah(params.ell_out, {cw[w].start_node}, skeleton_graph.edges, level) :
          IF r.ovf
          THEN /\ pc' = "overflow"
               /\ UNCHANGED <<nodes, attempts, cw>>
          ELSE IF r.ok
          THEN /\ cw' = [cw EXCEPT ![w] = IF ConvexFound = {}
                                           THEN [@ EXCEPT !.pc = "done", !.curr_iter = 0,
                                                          !.return_set = r.set]
                                           ELSE IdleConvexWorker]
               /\ UNCHANGED <<pc, nodes, attempts>>
          ELSE /\ cw' = [cw EXCEPT ![w] = IF cw[w].curr_iter + 1 < ConvexBudget
                                           THEN [@ EXCEPT !.curr_iter = @ + 1, !.start_node = None,
                                                          !.pc = "pop"]
                                           ELSE IdleConvexWorker]
               /\ UNCHANGED <<pc, nodes, attempts>>
    /\ UNCHANGED <<run_vars, graph_vars, mixing_steps, success, level_vars, cout, rw>>

\* blah on {start_node}; on success the worker clears the pool and returns
\* the set, on failure it counts the iteration
CvBlah(w) ==
    /\ pc = "convex"
    /\ cw[w].pc = "blah"
    /\ \E r \in Blah(params.ell_out, {cw[w].start_node}, skeleton_graph.edges, level) :
          IF r.ovf
          THEN /\ pc' = "overflow"
               /\ UNCHANGED <<nodes, attempts, cw>>
          ELSE IF r.ok
          THEN /\ cw' = [cw EXCEPT ![w] = IF ConvexFound = {}
                                           THEN [@ EXCEPT !.pc = "done", !.curr_iter = 0,
                                                          !.return_set = r.set]
                                           ELSE IdleConvexWorker]
               /\ nodes' = {}
               /\ UNCHANGED <<pc, attempts>>
          ELSE /\ cw' = [cw EXCEPT ![w] = IF cw[w].curr_iter + 1 < ConvexBudget
                                           THEN [@ EXCEPT !.curr_iter = @ + 1, !.start_node = None,
                                                          !.pc = "pop"]
                                           ELSE IdleConvexWorker]
               /\ UNCHANGED <<pc, nodes, attempts>>
    /\ UNCHANGED <<run_vars, graph_vars, mixing_steps, success, level_vars, cout, rw>>

\* a loop that counts the step whatever local_mixing_step returns
ConvexNoneCounted ==
    /\ pc = "convex"
    /\ \A w \in Workers : cw[w].pc = "done"
    /\ ConvexFound = {}
    /\ success' = "false"
    /\ mixing_steps' = mixing_steps + 1
    /\ pc' = "loop"
    /\ SearchReset
    /\ UNCHANGED <<run_vars, graph_vars>>

\* find_convex_fast returned None: local_mixing_step returns false
ConvexNone ==
    /\ pc = "convex"
    /\ \A w \in Workers : cw[w].pc = "done"
    /\ ConvexFound = {}
    /\ success' = "false"
    /\ pc' = "loop"
    /\ SearchReset
    /\ UNCHANGED <<run_vars, graph_vars, mixing_steps>>

\* the bijections between the active wires and [0, omega): the new index of a
\* wire is its place in the iteration of a hash set
WireMaps(omega_out) ==
    {m \in [omega_out -> 0 .. (Cardinality(omega_out) - 1)] :
        \A a, b \in omega_out : a # b => m[a] # m[b]}

\* C_out: the gates of the subset in the order top_sorted, over the new wires
COutGates(top_sorted, old_to_new) ==
    [i \in 1 .. Len(top_sorted) |->
        LET gate == gate_map[skeleton_graph.nodes[top_sorted[i]]]
        IN <<old_to_new[gate[1]], old_to_new[gate[2]], old_to_new[gate[3]]>>]

\* a match with the arm for three wires only
ReplacementDispatchThreeOnly(n) == n = 3

\* the match of find_replacement_circuit_fast on the wire count of C_out: the
\* counts with an arm that calls inner; every other count is unimplemented!()
ReplacementDispatch(n) == n \in 3 .. 11

\* find_map_any gave the set of some worker: order the subset, map its active
\* wires to [0, omega), build C_out and start the replacement search, whose
\* workers share the truth table of C_out
ConvexSome ==
    /\ pc = "convex"
    /\ \A w \in Workers : cw[w].pc = "done"
    /\ \E w \in ConvexFound :
       \E ts \in DfsWithinConvexSet(cw[w].start_node, cw[w].return_set, skeleton_graph.edges,
                                    [visited |-> {}, top_sorted |-> <<>>, ovf |-> FALSE], {}) :
          IF ts.ovf
          THEN /\ pc' = "overflow"
               /\ UNCHANGED <<cout, rw, level, nodes, attempts, cw>>
          ELSE LET gates == {gate_map[skeleton_graph.nodes[ts.top_sorted[i]]]
                               : i \in 1 .. Len(ts.top_sorted)}
                   omega_out == UNION {{g[1], g[2], g[3]} : g \in gates}
                   omega == Cardinality(omega_out)
               IN IF ~ReplacementDispatch(omega)
                  THEN /\ pc' = "unimplemented"
                       /\ UNCHANGED <<cout, rw, level, nodes, attempts, cw>>
                  ELSE \E old_to_new \in WireMaps(omega_out) :
                     LET c_out == COutGates(ts.top_sorted, old_to_new)
                     IN /\ cout' = [start |-> cw[w].start_node,
                                    subset |-> cw[w].return_set,
                                    top_sorted |-> ts.top_sorted,
                                    old_to_new |-> old_to_new,
                                    new_to_old |-> [k \in 0 .. (omega - 1) |->
                                                      CHOOSE a \in omega_out : old_to_new[a] = k],
                                    c_out |-> c_out,
                                    permutations |-> TruthTable(c_out, 0 .. (omega - 1))]
                        /\ level' = <<>>
                        /\ nodes' = {}
                        /\ attempts' = 0
                        /\ cw' = [v \in Workers |-> IdleConvexWorker]
                        /\ pc' = "repl"
                        /\ rw' = [v \in Workers |->
                                    [IdleReplWorker EXCEPT
                                       !.pc = IF 0 < ReplBudget THEN "loop" ELSE "done"]]
    /\ UNCHANGED <<run_vars, graph_vars, mixing_steps, success, stack, degree, lw>>

(***************************************************************************)
(* find_replacement_circuit_fast: the workers.                             *)
(***************************************************************************)
\* the worker whose Some find_map_any keeps (the first, as for the convex search)
ReplFound == {w \in Workers : rw[w].replacement_circuit # <<>>}

\* one iteration of a worker: sample a circuit, test it, keep it or count
ReplSample(w) ==
    /\ pc = "repl"
    /\ rw[w].pc = "loop"
    /\ LET sampled == SampledCircuits(params.ell_in, Cardinality(DOMAIN cout.new_to_old))
       IN \/ \E random_circuit \in {c \in sampled : Accepts(c, cout.c_out, cout.permutations)} :
                rw' = [rw EXCEPT ![w] = IF ReplFound = {}
                                        THEN [@ EXCEPT !.pc = "done", !.curr_iter = 0,
                                                       !.replacement_circuit = random_circuit]
                                        ELSE IdleReplWorker]
          \/ /\ TRUE = (\E random_circuit \in sampled :
                            ~Accepts(random_circuit, cout.c_out, cout.permutations))
             /\ rw' = [rw EXCEPT ![w] = IF rw[w].curr_iter + 1 < ReplBudget
                                        THEN [@ EXCEPT !.curr_iter = @ + 1]
                                        ELSE IdleReplWorker]
    /\ UNCHANGED <<run_vars, graph_vars, mixing_steps, success, pc, level_vars, nodes, attempts, cw, cout>>

\* a return of false that has handed out the ids of a C_in all the same
ReplNoneTakingIds ==
    /\ pc = "repl"
    /\ \A w \in Workers : rw[w].pc = "done"
    /\ ReplFound = {}
    /\ success' = "false"
    /\ pc' = "loop"
    /\ SearchReset
    /\ latest_id' = latest_id + params.ell_in
    /\ UNCHANGED <<run_vars, skeleton_graph, gate_map, mixing_steps>>

\* no worker found a replacement: local_mixing_step returns false
ReplNone ==
    /\ pc = "repl"
    /\ \A w \in Workers : rw[w].pc = "done"
    /\ ReplFound = {}
    /\ success' = "false"
    /\ pc' = "loop"
    /\ SearchReset
    /\ UNCHANGED <<run_vars, graph_vars, mixing_steps>>

\* the inputs check_probabilisitic_equivalence can draw: the values below
\* 1 << (n - 1), so wire n - 1 is never set
EquivalenceSamples(n) == SUBSET (0 .. (n - 2))

\* the DEBUG block of run_local_mixing can panic: always when toposort finds a
\* cycle, and, when a drawn input tells the two circuits apart, on its assert
DebugCanPanic(g, gm) ==
    \/ TopologicalOrders(g) = {}
    \/ \E p \in TopologicalOrders(g) : \E x \in EquivalenceSamples(NWires) :
          Run(original_circuit, x) # Run(FromTopSortedNodes(p, g, gm), x)

\* the DEBUG block can pass: there is an order, and the inputs drawn agree
DebugCanPass(g, gm) == TopologicalOrders(g) # {}

\* find_map_any gave the circuit of some worker: splice it in and return true;
\* the loop then runs its DEBUG block and counts the step
SpliceStep ==
    /\ pc = "repl"
    /\ \A w \in Workers : rw[w].pc = "done"
    /\ \E w \in ReplFound :
       \E order \in Perms(cout.subset) :
          LET c_in == CInGates(rw[w].replacement_circuit, cout.new_to_old)
              r == Splice(skeleton_graph, gate_map, latest_id, cout.subset, c_in, order)
          IN IF r.ovf
             THEN /\ pc' = "overflow"
                  /\ UNCHANGED <<graph_vars, mixing_steps, success, level_vars, nodes, attempts, cw, cout, rw>>
             ELSE /\ skeleton_graph' = r.graph
                  /\ gate_map' = r.gate_map
                  /\ latest_id' = r.latest_id
                  /\ success' = "true"
                  /\ SearchReset
                  /\ \/ /\ params.debug => DebugCanPass(r.graph, r.gate_map)
                        /\ mixing_steps' = mixing_steps + 1
                        /\ pc' = "loop"
                     \/ /\ params.debug /\ DebugCanPanic(r.graph, r.gate_map)
                        /\ pc' = "panic"
                        /\ UNCHANGED mixing_steps
    /\ UNCHANGED run_vars

Next ==
    \/ StartStep
    \/ Finish
    \/ \E w \in Workers : LvTake(w)
    \/ \E w \in Workers : LvFetchSub(w)
    \/ \E w \in Workers : LvFetchUpdate(w)
    \/ \E w \in Workers : LvPush(w)
    \/ LvJoin
    \/ \E w \in Workers : CvPop(w)
    \/ \E w \in Workers : CvBlah(w)
    \/ ConvexNone
    \/ ConvexSome
    \/ \E w \in Workers : ReplSample(w)
    \/ ReplNone
    \/ SpliceStep

Spec == Init /\ [][Next]_vars

\* a step of graph_level, a pop from the pool, or the return of None
LevelOrPoolStep ==
    \/ \E w \in Workers : LvTake(w)
    \/ \E w \in Workers : LvFetchSub(w)
    \/ \E w \in Workers : LvFetchUpdate(w)
    \/ \E w \in Workers : LvPush(w)
    \/ LvJoin
    \/ \E w \in Workers : CvPop(w)
    \/ ConvexNone

\* a step of find_convex_fast
FindConvexStep ==
    \/ LevelOrPoolStep
    \/ \E w \in Workers : CvBlah(w)
    \/ ConvexSome

\* the calls of find_convex_fast on the skeleton of the circuit of a run: the
\* loop calls local_mixing_step, which starts with find_convex_fast, and calls
\* it again when it returned None
NextFindConvex ==
    \/ StartStep
    \/ FindConvexStep

\* some worker has popped a seed and is to run blah on it
BlahPending == pc = "convex" /\ \E w \in Workers : cw[w].pc = "blah"

\* every worker has returned and one of them returned a set
ConvexSomeReady ==
    pc = "convex" /\ (\A w \in Workers : cw[w].pc = "done") /\ ConvexFound # {}

\* five gates on four wires whose collisions are 1 -> 3, 1 -> 5, 2 -> 5,
\* 3 -> 4 and 4 -> 5: two sources, and a node with three predecessors of
\* which one lies behind the path 3 -> 4
TwoSourceCircuit == << <<0, 1, 2>>, <<0, 1, 3>>, <<2, 1, 3>>, <<0, 1, 2>>, <<2, 0, 1>> >>

\* the runs whose first call of find_convex_fast is followed up to the order
\* of the set found: those of InitRuns and one with ell_out = 3 on a skeleton
\* with two sources
ConvexRuns ==
    InitRuns \cup
    { [circuit |-> TwoSourceCircuit, ell_out |-> 3, ell_in |-> 3,
       total_mixing_steps |-> 1, debug |-> FALSE] }

InitConvex ==
    /\ \E run \in ConvexRuns :
          /\ original_circuit = run.circuit
          /\ params = [ell_out |-> run.ell_out, ell_in |-> run.ell_in,
                       total_mixing_steps |-> run.total_mixing_steps, debug |-> run.debug]
    /\ skeleton_graph = CircuitToSkeletonGraph(original_circuit,
                            [i \in 1 .. Len(original_circuit) |-> i - 1])
    /\ gate_map = [id \in 0 .. (Len(original_circuit) - 1) |-> original_circuit[id + 1]]
    /\ latest_id = Len(original_circuit) - 1
    /\ mixing_steps = 0
    /\ success = "none"
    /\ pc = "loop"
    /\ SearchIdle
    /\ DriverIdle
    /\ fn_input = <<>>
    /\ fn_output = <<>>

SpecConvex == InitConvex /\ [][NextFindConvex]_vars

\* the workers are threads of the rayon pool and the locks they take are
\* released after one operation, so a call of find_convex_fast that can take
\* a step takes one.  For the steps of blah and for the return of a set the
\* weak fairness is written out, []<>~ENABLED <<A>>_vars \/ []<><<A>>_vars,
\* with the guard of the action in the place of ENABLED
SpecFair ==
    /\ Init /\ [][NextFindConvex]_vars
    /\ WF_vars(LevelOrPoolStep)
    /\ ([]<>~BlahPending \/ []<><<\E w \in Workers : CvBlah(w)>>_vars)
    /\ ([]<>~ConvexSomeReady \/ []<><<ConvexSome>>_vars)

(***************************************************************************)
(* The job controller of main.rs: run_obfuscation, run_strategy1 and       *)
(* run_strategy2.  Each iteration of a stage calls run_local_mixing for    *)
(* one step and counts it when the call returns true.  A circuit of the    *)
(* job is kept as the number of successful mixing steps that lead from the *)
(* original circuit to it.                                                 *)
(***************************************************************************)
\* no run of run_local_mixing is under way
PipelineIdle ==
    /\ original_circuit = <<>>
    /\ params = [ell_out |-> 0, ell_in |-> 0, total_mixing_steps |-> 0, debug |-> FALSE]
    /\ skeleton_graph = [nodes |-> <<>>, edges |-> {}]
    /\ gate_map = <<>>
    /\ latest_id = 0
    /\ mixing_steps = 0
    /\ success = "none"
    /\ pc = "idle"
    /\ SearchIdle

pipeline_vars == <<original_circuit, params, graph_vars, mixing_steps, success, pc,
                   level_vars, nodes, attempts, cw, cout, rw, pure_vars>>

\* ObfuscationConfig::new_with_strategy1 and new_with_strategy2, with small totals
Configs ==
    {[NoJob EXCEPT !.strategy = "Strategy1", !.total_steps = t, !.checkpoint_steps = k]
        : t \in 0 .. MaxStageSteps, k \in 1 .. MaxCheckpointSteps}
    \cup
    {[NoJob EXCEPT !.strategy = "Strategy2", !.inflationary_stage_steps = t[1],
                   !.kneading_stage_steps = t[2], !.checkpoint_steps = k]
        : t \in (0 .. MaxStageSteps) \X (0 .. MaxStageSteps), k \in 1 .. MaxCheckpointSteps}

\* the steps that the counters of a job count
StepsCounted(j) ==
    j.curr_total_steps + j.curr_inflationary_stage_steps + j.curr_kneading_stage_steps

\* the jobs that the loop and the end of one stage can store, for a process
\* that started with the job j and whose skeleton had base steps at the start
\* of the stage
StoresOfStage(j, counter, total, base) ==
    UNION {{[j EXCEPT ![counter] = c, !.curr_circuit = m]
              : m \in {base + c - j[counter], base + c - j[counter] + 1}}
           : c \in {d \in j[counter] .. (j[total] - 1) : d % j.checkpoint_steps = 0}}
    \cup {[j EXCEPT ![counter] = j[total], !.curr_circuit = base + j[total] - j[counter]]}

\* the jobs that a process that started with the job j can store
StoresOfRun(j) ==
    IF j.strategy = "Strategy1"
    THEN StoresOfStage(j, "curr_total_steps", "total_steps", 0)
    ELSE LET inflated == j.inflationary_stage_steps - j.curr_inflationary_stage_steps
         IN StoresOfStage(j, "curr_inflationary_stage_steps", "inflationary_stage_steps", 0)
            \cup StoresOfStage([j EXCEPT !.curr_inflationary_stage_steps =
                                            j.inflationary_stage_steps],
                               "curr_kneading_stage_steps", "kneading_stage_steps", inflated)

RECURSIVE StoredBy(_)
\* the jobs of R and the jobs stored by the processes that start with one of them
StoredBy(R) ==
    LET next == R \cup UNION {StoresOfRun(j) : j \in R}
    IN IF next = R THEN R ELSE StoredBy(next)

\* the jobs that ObfuscationJob::store can have left in the file at job_path:
\* those stored by processes that were started, stopped and started again
ReachableStoredJobs == StoredBy(UNION {StoresOfRun(c) : c \in Configs})

\* bincode::serialize of a job: its fields in the order of their declaration
Serialize(j) ==
    <<j.total_steps, j.inflationary_stage_steps, j.kneading_stage_steps, j.strategy,
      j.checkpoint_steps, j.curr_total_steps, j.curr_inflationary_stage_steps,
      j.curr_kneading_stage_steps, j.curr_circuit>>

JobFieldCount == Len(Serialize(NoJob))

\* what bincode::deserialize gives on an input that ends too early
DecodeError == [NoJob EXCEPT !.strategy = "error"]

\* bincode::deserialize of the bytes of a job file
Deserialize(bytes) ==
    IF Len(bytes) # JobFieldCount THEN DecodeError
    ELSE [total_steps |-> bytes[1], inflationary_stage_steps |-> bytes[2],
          kneading_stage_steps |-> bytes[3], strategy |-> bytes[4],
          checkpoint_steps |-> bytes[5], curr_total_steps |-> bytes[6],
          curr_inflationary_stage_steps |-> bytes[7],
          curr_kneading_stage_steps |-> bytes[8], curr_circuit |-> bytes[9]]

\* std::fs::read of the file at job_path
FileContents == SubSeq(Serialize(job_file), 1, file_len)

\* the values a call of run_local_mixing for one step can return
RunLocalMixingResults == BOOLEAN

\* whether the call runs its callback, which stores the job: only a call in
\* checkpoint mode can
CallbackRuns(to_checkpoint) == IF to_checkpoint THEN BOOLEAN ELSE {FALSE}

\* the circuit the call hands to its callback: the one before or after its step
CallbackCircuits(before, after) == {before, after}

InitDriver ==
    /\ PipelineIdle
    /\ job = NoJob
    /\ dpc = "start"
    /\ call = NoCall
    /\ job_file \in {NoJob} \cup ReachableStoredJobs
    /\ file_len = IF job_file = NoJob THEN 0 ELSE JobFieldCount
    /\ skeleton_steps = 0
    /\ loaded = FALSE
    /\ fn_input = <<>>
    /\ fn_output = <<>>

\* run_obfuscation: load the job of the file, or start a new one, and
\* dispatch on its strategy
RunObfuscation ==
    /\ dpc = "start"
    /\ IF job_file # NoJob
       THEN LET read == Deserialize(FileContents)
            IN IF read = DecodeError
               THEN /\ dpc' = "load_panic"
                    /\ UNCHANGED <<job, loaded>>
               ELSE /\ job' = read
                    /\ loaded' = TRUE
                    /\ dpc' = IF read.strategy = "Strategy1" THEN "strategy1"
                              ELSE "inflationary"
       ELSE \E config \in Configs :
               /\ job' = config
               /\ loaded' = FALSE
               /\ dpc' = IF config.strategy = "Strategy1" THEN "strategy1" ELSE "inflationary"
    /\ UNCHANGED <<call, job_file, file_len, skeleton_steps, pipeline_vars>>

\* one iteration of the loop of a stage: the call of run_local_mixing with its
\* callback, which sets curr_circuit and stores the job, and the count of the
\* step when the call returned true
MixingCall(stage, ell_out, ell_in, counter, counts) ==
    \E result \in RunLocalMixingResults :
       LET to_checkpoint == job[counter] % job.checkpoint_steps = 0
           after == skeleton_steps + (IF result THEN 1 ELSE 0)
       IN /\ call' = [stage |-> stage, ell_out |-> ell_out, ell_in |-> ell_in,
                      to_checkpoint |-> to_checkpoint, success |-> result]
          /\ skeleton_steps' = after
          /\ \E cb \in CallbackRuns(to_checkpoint) :
             \E mixed_circuit \in CallbackCircuits(skeleton_steps, after) :
                LET in_callback == IF cb THEN [job EXCEPT !.curr_circuit = mixed_circuit]
                                   ELSE job
                IN /\ job_file' = IF cb THEN in_callback ELSE job_file
                   /\ file_len' = IF cb THEN JobFieldCount ELSE file_len
                   /\ job' = IF counts[result]
                             THEN [in_callback EXCEPT ![counter] = @ + 1]
                             ELSE in_callback

\* "if success": the results of a call after which the counter advances
IfSuccess == [result \in BOOLEAN |-> result]

\* after the loop of a stage: set the counter to its total, take the circuit
\* of the skeleton, check its equivalence with the original circuit, and
\* store the job or abort
StageEnd(counter, total, next_dpc) ==
    /\ job' = [job EXCEPT ![counter] = job[total], !.curr_circuit = skeleton_steps]
    /\ \E is_correct \in BOOLEAN :
          IF is_correct
          THEN /\ job_file' = job'
               /\ file_len' = JobFieldCount
               /\ dpc' = next_dpc
          ELSE /\ dpc' = "abort"
               /\ UNCHANGED <<job_file, file_len>>
    /\ UNCHANGED <<call, skeleton_steps, loaded, pipeline_vars>>

\* the loop of run_strategy1 counting its step whatever the call returned
S1StepCountingFailures ==
    /\ dpc = "strategy1"
    /\ job.curr_total_steps < job.total_steps
    /\ \E ell_out \in 2 .. 4 :
          MixingCall("mixing", ell_out, 4, "curr_total_steps", [result \in BOOLEAN |-> TRUE])
    /\ UNCHANGED <<dpc, loaded, pipeline_vars>>

\* run_strategy1: one iteration of the loop
S1Step ==
    /\ dpc = "strategy1"
    /\ job.curr_total_steps < job.total_steps
    /\ \E ell_out \in 2 .. 4 :
          MixingCall("mixing", ell_out, 4, "curr_total_steps", IfSuccess)
    /\ UNCHANGED <<dpc, loaded, pipeline_vars>>

\* the end of run_strategy1 with the store moved before the check
S1EndStoringFirst ==
    /\ dpc = "strategy1"
    /\ ~(job.curr_total_steps < job.total_steps)
    /\ job' = [job EXCEPT !.curr_total_steps = job.total_steps,
                          !.curr_circuit = skeleton_steps]
    /\ job_file' = job'
    /\ file_len' = JobFieldCount
    /\ dpc' \in {"done", "abort"}
    /\ UNCHANGED <<call, skeleton_steps, loaded, pipeline_vars>>

\* run_strategy1 after the loop
S1End ==
    /\ dpc = "strategy1"
    /\ ~(job.curr_total_steps < job.total_steps)
    /\ StageEnd("curr_total_steps", "total_steps", "done")

\* run_strategy2: one iteration of the inflationary loop
S2InflationaryStep ==
    /\ dpc = "inflationary"
    /\ job.curr_inflationary_stage_steps < job.inflationary_stage_steps
    /\ MixingCall("inflationary", 2, 4, "curr_inflationary_stage_steps", IfSuccess)
    /\ UNCHANGED <<dpc, loaded, pipeline_vars>>

\* run_strategy2 after the inflationary loop: on to the kneading stage
S2InflationaryEnd ==
    /\ dpc = "inflationary"
    /\ ~(job.curr_inflationary_stage_steps < job.inflationary_stage_steps)
    /\ StageEnd("curr_inflationary_stage_steps", "inflationary_stage_steps", "kneading")

\* the kneading loop written with the arguments of the inflationary loop
S2KneadingStepAsInflationary ==
    /\ dpc = "kneading"
    /\ job.curr_kneading_stage_steps < job.kneading_stage_steps
    /\ MixingCall("kneading", 2, 4, "curr_kneading_stage_steps", IfSuccess)
    /\ UNCHANGED <<dpc, loaded, pipeline_vars>>

\* run_strategy2: one iteration of the kneading loop
S2KneadingStep ==
    /\ dpc = "kneading"
    /\ job.curr_kneading_stage_steps < job.kneading_stage_steps
    /\ MixingCall("kneading", 4, 4, "curr_kneading_stage_steps", IfSuccess)
    /\ UNCHANGED <<dpc, loaded, pipeline_vars>>

\* run_strategy2 after the kneading loop
S2KneadingEnd ==
    /\ dpc = "kneading"
    /\ ~(job.curr_kneading_stage_steps < job.kneading_stage_steps)
    /\ StageEnd("curr_kneading_stage_steps", "kneading_stage_steps", "done")

NextDriver ==
    \/ RunObfuscation
    \/ S1Step
    \/ S1End
    \/ S2InflationaryStep
    \/ S2InflationaryEnd
    \/ S2KneadingStep
    \/ S2KneadingEnd

SpecDriver == InitDriver /\ [][NextDriver]_vars

\* the mixing loop of the library together with the loops of the controller
InitAll == Init \/ InitDriver

NextAll == Next \/ NextDriver

SpecAll == InitAll /\ [][NextAll]_vars

(***************************************************************************)
(* The job file when the process stops while ObfuscationJob::store writes  *)
(* it.  std::fs::write opens the file at job_path itself, which empties    *)
(* it, and then writes the bytes; a process that stops in between leaves   *)
(* the bytes written so far.  The next run of the program finds the file.  *)
(***************************************************************************)
\* the stage of the controller has left its loop
StageOver ==
    \/ dpc = "strategy1" /\ ~(job.curr_total_steps < job.total_steps)
    \/ dpc = "inflationary" /\ ~(job.curr_inflationary_stage_steps < job.inflationary_stage_steps)
    \/ dpc = "kneading" /\ ~(job.curr_kneading_stage_steps < job.kneading_stage_steps)

\* the counter and the total of the stage the controller is in
StageCounter ==
    IF dpc = "strategy1" THEN <<"curr_total_steps", "total_steps">>
    ELSE IF dpc = "inflationary"
    THEN <<"curr_inflationary_stage_steps", "inflationary_stage_steps">>
    ELSE <<"curr_kneading_stage_steps", "kneading_stage_steps">>

\* the jobs a store that starts now can be writing: the job at the end of the
\* stage, or in the loop the job of the callback of a call in checkpoint mode
JobsBeingStored ==
    IF StageOver
    THEN {[job EXCEPT ![StageCounter[1]] = job[StageCounter[2]],
                      !.curr_circuit = skeleton_steps]}
    ELSE IF job[StageCounter[1]] % job.checkpoint_steps = 0
    THEN {[job EXCEPT !.curr_circuit = m] : m \in {skeleton_steps, skeleton_steps + 1}}
    ELSE {}

\* the process stops during a store, after some of the bytes
StopDuringStore ==
    /\ dpc \in {"strategy1", "inflationary", "kneading"}
    /\ \E j \in JobsBeingStored, written \in 0 .. (JobFieldCount - 1) :
          /\ job_file' = j
          /\ file_len' = written
    /\ dpc' = "stopped"
    /\ UNCHANGED <<job, call, skeleton_steps, loaded, pipeline_vars>>

\* the process is stopped between two stores: the file stays as it is
Stop ==
    /\ dpc \in {"strategy1", "inflationary", "kneading"}
    /\ dpc' = "stopped"
    /\ UNCHANGED <<job, call, job_file, file_len, skeleton_steps, loaded, pipeline_vars>>

\* the program is started again with the same job_path
Restart ==
    /\ dpc \in {"stopped", "done", "abort"}
    /\ dpc' = "start"
    /\ job' = NoJob
    /\ call' = NoCall
    /\ skeleton_steps' = 0
    /\ loaded' = FALSE
    /\ UNCHANGED <<job_file, file_len, pipeline_vars>>

\* the first run starts without a job file
InitStops ==
    /\ InitDriver
    /\ job_file = NoJob

NextStops ==
    \/ NextDriver
    \/ StopDuringStore
    \/ Stop
    \/ Restart

SpecStops == InitStops /\ [][NextStops]_vars

(***************************************************************************)
(* The conversions of main.rs and the functions of lib.rs that are applied *)
(* to a circuit on their own.  A circuit is given with the ids and the     *)
(* control functions of its gates.                                         *)
(***************************************************************************)
\* the ids of a circuit of m gates: 0 .. m-1 as a sampled circuit has them,
\* or the ids that m gates created by splices have after m earlier gates
IdLists(m) == {[i \in 1 .. m |-> i - 1], [i \in 1 .. m |-> m + i - 1]}

\* control_func of a gate is a u8; two of its values
ControlFuncs == {0, 1}

PureInputs ==
    UNION {[gates : [1 .. m -> GatesOver(Wires)], ids : IdLists(m),
            control_func : ControlFuncs, n : {NWires}] : m \in 1 .. MaxGates}

\* the Circuit<BaseGate<2, u8>> of an input
CircuitOf(in) ==
    [n |-> in.n,
     gates |-> [i \in 1 .. Len(in.gates) |->
                  [id |-> in.ids[i], target |-> in.gates[i][1],
                   controls |-> <<in.gates[i][2], in.gates[i][3]>>,
                   control_func |-> in.control_func]]]

\* From<&Circuit> for PrettyCircuit
ToPrettyCircuit(circuit) ==
    [wire_count |-> circuit.n,
     gate_count |-> Len(circuit.gates),
     gates |-> [i \in 1 .. Len(circuit.gates) |->
                  <<circuit.gates[i].controls[1], circuit.gates[i].controls[2],
                    circuit.gates[i].target, circuit.gates[i].control_func>>]]

\* From<&PrettyCircuit> for Circuit: the id of a gate is its place in the list
FromPrettyCircuit(pretty) ==
    [n |-> pretty.wire_count,
     gates |-> [i \in 1 .. Len(pretty.gates) |->
                  [id |-> i - 1, target |-> pretty.gates[i][3],
                   controls |-> <<pretty.gates[i][1], pretty.gates[i][2]>>,
                   control_func |-> pretty.gates[i][4]]]]

\* equality of circuits: the same n and the same gates, each gate with its id,
\* target, controls and control function
CircuitEq(a, b) == a.n = b.n /\ a.gates = b.gates

InitPure ==
    /\ PipelineIdle
    /\ DriverIdle
    /\ fn_input \in PureInputs
    /\ fn_output = <<>>

\* a circuit is written as JSON and read back
ConvertRoundTrip ==
    /\ fn_input # <<>>
    /\ fn_output' = [fn |-> "pretty",
                     result |-> FromPrettyCircuit(ToPrettyCircuit(CircuitOf(fn_input)))]
    /\ UNCHANGED <<original_circuit, params, graph_vars, mixing_steps, success, pc,
                   level_vars, nodes, attempts, cw, cout, rw, driver_vars, fn_input>>

\* is_collisions_set_weakly_connected on the collision sets of a circuit
ApplyWeaklyConnected ==
    /\ fn_input # <<>>
    /\ fn_output' = [fn |-> "weakly_connected",
                     result |-> IsCollisionsSetWeaklyConnected(
                                    CircuitToCollisionSets(fn_input.gates))]
    /\ UNCHANGED <<original_circuit, params, graph_vars, mixing_steps, success, pc,
                   level_vars, nodes, attempts, cw, cout, rw, driver_vars, fn_input>>

\* circuit_to_skeleton_graph, with the list of edges it was built from
ApplySkeletonGraph ==
    /\ fn_input # <<>>
    /\ fn_output' = [fn |-> "skeleton_graph",
                     result |-> CircuitToSkeletonGraph(fn_input.gates, fn_input.ids),
                     edge_list |-> SkeletonEdgeList(CircuitToCollisionSets(fn_input.gates), 1)]
    /\ UNCHANGED <<original_circuit, params, graph_vars, mixing_steps, success, pc,
                   level_vars, nodes, attempts, cw, cout, rw, driver_vars, fn_input>>

\* the gate_map of a circuit: the gate of each id
GateMapOf(in) == [id \in SeqToSet(in.ids) |->
                    in.gates[CHOOSE i \in DOMAIN in.ids : in.ids[i] = id]]

\* the skeleton of a circuit, and the circuit of each of its topological orders
ApplyTopologicalOrders ==
    /\ fn_input # <<>>
    /\ LET g == CircuitToSkeletonGraph(fn_input.gates, fn_input.ids)
       IN fn_output' = [fn |-> "topological_orders",
                        result |-> {FromTopSortedNodes(p, g, GateMapOf(fn_input))
                                      : p \in TopologicalOrders(g)}]
    /\ UNCHANGED <<original_circuit, params, graph_vars, mixing_steps, success, pc,
                   level_vars, nodes, attempts, cw, cout, rw, driver_vars, fn_input>>

NextPure ==
    \/ ConvertRoundTrip
    \/ ApplyWeaklyConnected
    \/ ApplySkeletonGraph
    \/ ApplyTopologicalOrders

SpecPure == InitPure /\ [][NextPure]_vars

(***************************************************************************)
(* The searches of lib.rs applied to a graph on their own.  A graph is     *)
(* given by its edges over the nodes 1 .. MaxNodes; a skeleton is acyclic, *)
(* and its nodes can be numbered in any order (a removal moves the last    *)
(* node into the freed index), so every acyclic graph on the nodes is an   *)
(* input.  A behaviour applies one search to its graph.                    *)
(***************************************************************************)
SearchNodes == 1 .. MaxNodes

SearchInputs ==
    {g \in [nodes : {[i \in SearchNodes |-> i - 1]},
            edges : SUBSET {e \in SearchNodes \X SearchNodes : e[1] # e[2]}] :
        TopologicalOrders(g) # {}}

InitSearch ==
    /\ PipelineIdle
    /\ DriverIdle
    /\ fn_input \in SearchInputs
    /\ fn_output = <<>>

\* dfs from source with visited_with_path = {target}
ApplyDfs ==
    /\ fn_input # <<>>
    /\ fn_output = <<>>
    /\ \E source \in SearchNodes, target \in SearchNodes :
          fn_output' = [fn |-> "dfs", source |-> source, target |-> target,
                        result |-> Dfs(source, DfsState({target}, {}), fn_input.edges,
                                       "Outgoing")]
    /\ UNCHANGED <<original_circuit, params, graph_vars, mixing_steps, success, pc,
                   level_vars, nodes, attempts, cw, cout, rw, driver_vars, fn_input>>

RECURSIVE LevelOf(_, _)
\* the level graph_level gives a node when one thread runs it: 0 without
\* incoming edge, else one more than the largest level of a predecessor
LevelOf(E, v) ==
    IF Incoming(E, v) = {} THEN 0
    ELSE 1 + MaxOf({LevelOf(E, u) : u \in Incoming(E, v)})

\* the closure search of blah for a set and one of its candidates, with the
\* levels of the graph, and dfs from the same nodes with the same sets
ApplyDfs2 ==
    /\ fn_input # <<>>
    /\ fn_output = <<>>
    /\ \E S \in SUBSET SearchNodes \ {{}}, desire \in SearchNodes :
       \E x \in (UNION {Outgoing(fn_input.edges, s) : s \in S}) \ S :
          LET lv == [v \in SearchNodes |-> LevelOf(fn_input.edges, v)]
          IN fn_output' = [fn |-> "dfs2", convex_set |-> S, candidate |-> x,
                           desire_set_size |-> desire, level |-> lv,
                           pruned |-> BlahClosure(desire, S, fn_input.edges, lv, x),
                           unpruned |-> DfsEach(SetToSeq(S), DfsState({x}, {}),
                                                fn_input.edges, "Outgoing")]
    /\ UNCHANGED <<original_circuit, params, graph_vars, mixing_steps, success, pc,
                   level_vars, nodes, attempts, cw, cout, rw, driver_vars, fn_input>>

NextSearch ==
    \/ ApplyDfs
    \/ ApplyDfs2

SpecSearch == InitSearch /\ [][NextSearch]_vars

(***************************************************************************)
(* check_probabilisitic_equivalence applied to two circuits on their own.  *)
(* The draws are values of Uniform::new(0, 1u128 << n - 1); bit i of a     *)
(* value is the input of wire i.  A behaviour applies the check once.      *)
(***************************************************************************)
\* 1u128 << n - 1 is 1 << (n - 1): the subtraction binds tighter than the shift
SampleBound(n) == 2 ^ (n - 1)

\* inputs.push((value >> i) & 1 == 1) for i in 0..n: the wires that carry 1
InputOfValue(value, n) == {i \in 0 .. (n - 1) : (value \div (2 ^ i)) % 2 = 1}

\* two circuits of one gate over the n wires
EquivalenceInputs ==
    [circuit0 : [1 .. 1 -> GatesOver(Wires)], circuit1 : [1 .. 1 -> GatesOver(Wires)],
     n : {NWires}]

InitEquivalence ==
    /\ PipelineIdle
    /\ DriverIdle
    /\ fn_input \in EquivalenceInputs
    /\ fn_output = <<>>

\* the loop over the draws: any values below the bound can be the ones drawn;
\* the assert fails when a drawn input gives two different outputs
CheckProbabilisticEquivalence ==
    /\ fn_input # <<>>
    /\ fn_output = <<>>
    /\ \E values \in SUBSET (0 .. (SampleBound(fn_input.n) - 1)) \ {{}} :
          LET drawn == {InputOfValue(v, fn_input.n) : v \in values}
          IN fn_output' =
                [fn |-> "check_probabilisitic_equivalence",
                 range |-> {InputOfValue(v, fn_input.n)
                              : v \in 0 .. (SampleBound(fn_input.n) - 1)},
                 drawn |-> drawn,
                 panics |-> \E x \in drawn :
                               Run(fn_input.circuit0, x) # Run(fn_input.circuit1, x)]
    /\ UNCHANGED <<original_circuit, params, graph_vars, mixing_steps, success, pc,
                   level_vars, nodes, attempts, cw, cout, rw, driver_vars, fn_input>>

NextEquivalence ==
    \/ CheckProbabilisticEquivalence

SpecEquivalence == InitEquivalence /\ [][NextEquivalence]_vars

(***************************************************************************)
(* sample_circuit_with_base_gate_fast: every gate of the circuit is        *)
(* overwritten with a target and two controls taken from the nibbles of    *)
(* the RNG's bytes.                                                        *)
(***************************************************************************)

\* the largest circuit that is filled, and the most wires it is filled for
\* when it has more than one gate
MaxFastGates == 2
MaxFastWires == 6

\* the bytes taken from the RNG are counted up to one more than the values
\* the largest circuit needs
FastBytesCounted == 3 * MaxFastGates + 1

\* the |set| array has 16 slots, one per nibble value
SetSlots == 16

\* the bytes of rng.next_u32().to_le_bytes()
Bytes == 0 .. 255

\* v & 15 and v >> 4 of a byte v
LowNibble(v) == v % 16
HighNibble(v) == v \div 16

\* no slot marked at the start
FastSetNoneMarked(n) == {}

\* let set: [bool; 16] = from_fn(|i| (i as u8) >= n): the slots that are true
FastSet(n) == {i \in 0 .. (SetSlots - 1) : i >= n}

\* the circuits handed in: n is a u8, the circuit has one gate or more
FastInputs ==
    {in \in [n : 0 .. SetSlots, gates : 1 .. MaxFastGates]
        : in.gates = 1 \/ in.n <= MaxFastWires}

\* before the first byte: no gate written, the first gate's set is the copy of set
InitFast ==
    /\ PipelineIdle
    /\ DriverIdle
    /\ fn_input \in FastInputs
    /\ fn_output = [fn |-> "sample_circuit_with_base_gate_fast",
                    set |-> FastSet(fn_input.n), picked |-> <<>>,
                    written |-> <<>>, bytes |-> 0]

\* one value of [t, c0, c1] has been chosen: it is marked in set; the third
\* one completes the gate, which is written, and the next gate starts from a
\* fresh copy of set
FastPicked(out, x, n) ==
    LET picked == Append(out.picked, x)
    IN IF Len(picked) = 3
          THEN [out EXCEPT !.set = FastSet(n), !.picked = <<>>,
                           !.written = Append(@, picked)]
          ELSE [out EXCEPT !.set = @ \cup {x}, !.picked = picked]

\* one iteration of the loop: the next byte, its low nibble first, then its
\* high nibble; a byte whose two nibbles are both marked is dropped
FastByte ==
    /\ fn_input # <<>>
    /\ fn_output # <<>>
    /\ fn_output.fn = "sample_circuit_with_base_gate_fast"
    /\ Len(fn_output.written) < fn_input.gates
    /\ \E v \in Bytes :
          LET out == [fn_output EXCEPT !.bytes = IF @ < FastBytesCounted THEN @ + 1 ELSE @]
          IN fn_output' =
                IF LowNibble(v) \notin fn_output.set
                   THEN FastPicked(out, LowNibble(v), fn_input.n)
                   ELSE IF HighNibble(v) \notin fn_output.set
                           THEN FastPicked(out, HighNibble(v), fn_input.n)
                           ELSE out
    /\ UNCHANGED <<original_circuit, params, graph_vars, mixing_steps, success, pc,
                   level_vars, nodes, attempts, cw, cout, rw, driver_vars, fn_input>>

NextFast ==
    \/ FastByte

SpecFast == InitFast /\ [][NextFast]_vars

(***************************************************************************)
(* Vocabulary of the properties.                                           *)
(***************************************************************************)
RECURSIVE ReachableFrom(_, _)
\* the nodes reachable from the nodes of F along the edges E, F included
ReachableFrom(E, F) ==
    LET next == F \cup UNION {Outgoing(E, u) : u \in F}
    IN IF next = F THEN F ELSE ReachableFrom(E, next)

\* the nodes at the end of a directed path of at least one edge from u
Descendants(E, u) == ReachableFrom(E, Outgoing(E, u))

IsAcyclic(g) == \A u \in 1 .. Len(g.nodes) : u \notin Descendants(g.edges, u)

\* no directed path leaves the set S and comes back to it
IsConvex(E, S) == \A u \in S : \A x \in Descendants(E, u) \ S : Descendants(E, x) \cap S = {}

\* lv is the longest-path level of every node
LevelsCorrect(E, lv) ==
    \A v \in DOMAIN lv :
        lv[v] = IF Incoming(E, v) = {} THEN 0 ELSE 1 + MaxOf({lv[u] : u \in Incoming(E, v)})

\* two circuits compute the same function on every input over the n wires
SameFunction(c1, c2) == \A x \in SUBSET Wires : Run(c1, x) = Run(c2, x)

\* the gate of a node of the skeleton
GateOf(v) == gate_map[skeleton_graph.nodes[v]]

\* a call of local_mixing_step has returned (or the run has ended)
BetweenSteps == pc \in {"loop", "returned", "panic"}

(***************************************************************************)
(* The level oracle, the convex search and the splice.                     *)
(***************************************************************************)
\* C5: when graph_level has returned on an acyclic skeleton, the array holds
\* level 0 for every node without incoming edge and 1 + the largest level of a
\* predecessor for every other node, whatever the interleaving of the workers
C5_LevelsCorrect ==
    (pc = "convex" /\ IsAcyclic(skeleton_graph))
        => LevelsCorrect(skeleton_graph.edges, level)

\* C4: the set a worker of find_convex_fast returns on an acyclic skeleton
\* holds its start node, has ell_out nodes and is convex
C4_ConvexSetFound ==
    (pc = "convex" /\ IsAcyclic(skeleton_graph))
        => \A w \in ConvexFound :
              /\ cw[w].start_node \in cw[w].return_set
              /\ Cardinality(cw[w].return_set) = params.ell_out
              /\ IsConvex(skeleton_graph.edges, cw[w].return_set)

\* the same, for the searches that were given the right levels
ConvexSetFoundOnCorrectLevels ==
    (pc = "convex" /\ IsAcyclic(skeleton_graph)
        /\ LevelsCorrect(skeleton_graph.edges, level))
        => \A w \in ConvexFound :
              /\ cw[w].start_node \in cw[w].return_set
              /\ Cardinality(cw[w].return_set) = params.ell_out
              /\ IsConvex(skeleton_graph.edges, cw[w].return_set)

\* C2: once local_mixing_step has returned true the skeleton is acyclic
C2_AcyclicAfterSplice == success = "true" => IsAcyclic(skeleton_graph)

\* the same, for the splices of a convex subset into an acyclic skeleton
AcyclicAfterConvexSplice ==
    [][(pc = "repl" /\ success' = "true" /\ pc' # "overflow"
          /\ IsAcyclic(skeleton_graph) /\ IsConvex(skeleton_graph.edges, cout.subset))
        => IsAcyclic(skeleton_graph')]_vars

EveryOrderEquivalent ==
    (success = "true" /\ BetweenSteps)
        => \A p \in TopologicalOrders(skeleton_graph) :
              SameFunction(FromTopSortedNodes(p, skeleton_graph, gate_map), original_circuit)

\* C3: in every skeleton any two distinct nodes whose gates collide are
\* joined by an edge; an edge of an acyclic skeleton points from the node that
\* is earlier in every topological order to the later one
C3_CollisionCompleteness ==
    \A u, v \in NodeSet :
        (u # v /\ CheckCollision(GateOf(u), GateOf(v)))
            => (<<u, v>> \in skeleton_graph.edges \/ <<v, u>> \in skeleton_graph.edges)

\* a node that was there before the run and a node a splice inserted collide
C3_Witness ==
    /\ mixing_steps >= 1
    /\ \E u, v \in NodeSet :
          /\ skeleton_graph.nodes[u] < Len(original_circuit)
          /\ skeleton_graph.nodes[v] >= Len(original_circuit)
          /\ CheckCollision(GateOf(u), GateOf(v))
          /\ <<u, v>> \in skeleton_graph.edges

(***************************************************************************)
(* The replacement search.                                                 *)
(***************************************************************************)
\* the active wires of the convex subset, renamed to 0 .. omega - 1
ActiveWires ==
    0 .. (Cardinality(UNION {{GateOf(v)[1], GateOf(v)[2], GateOf(v)[3]} : v \in cout.subset}) - 1)

\* the gates of a circuit that collide, as an undirected graph on their places
CollisionPairs(c) ==
    {e \in (DOMAIN c) \X (DOMAIN c) : e[1] # e[2] /\ CheckCollision(c[e[1]], c[e[2]])}

\* the collision graph of a circuit has exactly one connected component
HasOneComponent(c) == c # <<>> /\ ReachableFrom(CollisionPairs(c), {1}) = DOMAIN c

\* C6: a circuit kept by a worker of find_replacement_circuit_fast has ell_in
\* gates over the omega active wires and gives the output of C_out on every
\* one of the 2^omega inputs
C6_ReplacementEquivalent ==
    pc = "repl" =>
        \A w \in ReplFound :
            /\ Len(rw[w].replacement_circuit) = params.ell_in
            /\ \A i \in 1 .. params.ell_in :
                  rw[w].replacement_circuit[i] \in GatesOver(ActiveWires)
            /\ \A x \in SUBSET ActiveWires :
                  Run(rw[w].replacement_circuit, x) = Run(cout.c_out, x)

\* a replacement with more gates than C_out was found
C6_Witness ==
    /\ pc = "repl"
    /\ \E w \in ReplFound : Len(rw[w].replacement_circuit) > Len(cout.c_out)

\* C7: the collision graph of a circuit kept by a worker of
\* find_replacement_circuit_fast has exactly one connected component
C7_ReplacementConnected ==
    pc = "repl" => \A w \in ReplFound : HasOneComponent(rw[w].replacement_circuit)

\* a replacement of three gates was found, one of which collides with both others
C7_Witness ==
    /\ pc = "repl"
    /\ \E w \in ReplFound :
          /\ Len(rw[w].replacement_circuit) = 3
          /\ \E i \in 1 .. 3 : \A j \in (1 .. 3) \ {i} :
                <<i, j>> \in CollisionPairs(rw[w].replacement_circuit)

\* C8: a circuit kept by a worker of find_replacement_circuit_fast is not the
\* gate sequence C_out
C8_ReplacementDiffers ==
    pc = "repl" => \A w \in ReplFound : rw[w].replacement_circuit # cout.c_out

\* a replacement of as many gates as C_out was found, so that C_out itself was
\* among the circuits the worker could sample
C8_Witness ==
    /\ pc = "repl"
    /\ \E w \in ReplFound :
          /\ Len(rw[w].replacement_circuit) = Len(cout.c_out)
          /\ cout.c_out \in SampledCircuits(params.ell_in, Cardinality(ActiveWires))

(***************************************************************************)
(* The loops that count the steps.                                         *)
(***************************************************************************)
\* a call of local_mixing_step returns false
StepFails == pc \in {"convex", "repl"} /\ pc' = "loop" /\ success' = "false"

\* a call of local_mixing_step returns true and the loop goes on
StepSucceeds == pc = "repl" /\ pc' = "loop" /\ success' = "true"

\* C9: the step counter of run_local_mixing changes only by a step that
\* returned true, and then by one; a step that returned false leaves it as it
\* is and the loop runs the step again; the same for the counter of
\* run_strategy1 and the result of its call
C9_StepCounter ==
    [][/\ mixing_steps' # mixing_steps => (StepSucceeds /\ mixing_steps' = mixing_steps + 1)
       /\ StepSucceeds => mixing_steps' = mixing_steps + 1
       /\ StepFails => (mixing_steps' = mixing_steps
                          /\ mixing_steps' < params.total_mixing_steps)
       /\ (dpc = "strategy1" /\ dpc' = "strategy1")
             => /\ job'.curr_total_steps
                      = job.curr_total_steps + (IF call'.success THEN 1 ELSE 0)
                /\ (~call'.success => job'.curr_total_steps < job'.total_steps)]_vars

\* a step failed after one that succeeded
C9_Witness == pc = "loop" /\ success = "false" /\ mixing_steps = 1

(***************************************************************************)
(* The stages of Strategy 2.                                               *)
(***************************************************************************)
\* C10: under Strategy 2 a step of the inflationary stage is called with
\* ell_out = 2 and ell_in = 4 and a step of the kneading stage with 4 and 4,
\* the inflationary counter has reached its total when a kneading step is
\* called, and the two counters never decrease and never exceed their totals
C10_Strategy2Stages ==
    /\ [](/\ call.stage = "inflationary" => (call.ell_out = 2 /\ call.ell_in = 4)
          /\ call.stage = "kneading"
                => /\ call.ell_out = 4 /\ call.ell_in = 4
                   /\ job.curr_inflationary_stage_steps = job.inflationary_stage_steps
          /\ job.curr_inflationary_stage_steps <= job.inflationary_stage_steps
          /\ job.curr_kneading_stage_steps <= job.kneading_stage_steps)
    /\ [][/\ job'.curr_inflationary_stage_steps >= job.curr_inflationary_stage_steps
          /\ job'.curr_kneading_stage_steps >= job.curr_kneading_stage_steps
          /\ (job'.curr_kneading_stage_steps > job.curr_kneading_stage_steps
                /\ dpc = "kneading")
                => job.curr_inflationary_stage_steps = job.inflationary_stage_steps]_vars

\* both stages of a job with steps in each have run to their totals
C10_Witness ==
    /\ dpc = "done"
    /\ job.strategy = "Strategy2"
    /\ call.stage = "kneading"
    /\ job.inflationary_stage_steps > 0
    /\ job.curr_kneading_stage_steps = job.kneading_stage_steps
    /\ job.kneading_stage_steps = MaxStageSteps

(***************************************************************************)
(* The steps of Strategy 1.                                                *)
(***************************************************************************)
\* C11: under Strategy 1 every step is called with ell_in = 4 and ell_out
\* in {2, 3, 4}, and when run_strategy1 has left its loop on a job that was
\* not loaded from a file, exactly total_steps calls have returned true and
\* curr_total_steps = total_steps
C11_Strategy1Steps ==
    /\ call.stage = "mixing" => (call.ell_in = 4 /\ call.ell_out \in {2, 3, 4})
    /\ (job.strategy = "Strategy1" /\ ~loaded /\ dpc \in {"done", "abort"})
          => /\ skeleton_steps = job.total_steps
             /\ job.curr_total_steps = job.total_steps

\* a new job of Strategy 1 with the largest total has finished, its last step
\* with ell_out = 3
C11_Witness ==
    /\ dpc = "done"
    /\ job.strategy = "Strategy1"
    /\ ~loaded
    /\ job.total_steps = MaxStageSteps
    /\ skeleton_steps = MaxStageSteps
    /\ call.ell_out = 3

(***************************************************************************)
(* The gate ids.                                                           *)
(***************************************************************************)
\* the ids of the gates in the skeleton
SkeletonIds == SeqToSet(skeleton_graph.nodes)

\* C12: the ids of the nodes of the skeleton are pairwise distinct, none is
\* larger than latest_id and gate_map holds exactly these ids; latest_id
\* never decreases, a step that returns true adds ell_in to it, and every id
\* that enters the skeleton is larger than the latest_id before the step, so
\* larger than every id handed out before, removed ones included
C12_IdsIncrease ==
    /\ [](/\ \A a, b \in DOMAIN skeleton_graph.nodes :
                 a # b => skeleton_graph.nodes[a] # skeleton_graph.nodes[b]
          /\ \A id \in SkeletonIds : id <= latest_id
          /\ DOMAIN gate_map = SkeletonIds)
    /\ [][/\ latest_id' >= latest_id
          /\ StepSucceeds => latest_id' = latest_id + params.ell_in
          /\ (pc = "repl" /\ pc' = "panic") => latest_id' = latest_id + params.ell_in
          /\ latest_id' # latest_id => (pc = "repl" /\ success' = "true")
          /\ \A id \in SkeletonIds' \ SkeletonIds : id > latest_id]_vars

\* two steps have returned true and the second removed a gate that the first
\* had created
C12_Witness ==
    /\ pc = "loop"
    /\ mixing_steps = 2
    /\ latest_id = Len(original_circuit) - 1 + 2 * params.ell_in
    /\ \E id \in Len(original_circuit) .. (Len(original_circuit) - 1 + params.ell_in) :
          id \notin SkeletonIds

(***************************************************************************)
(* The step as a total function.                                           *)
(***************************************************************************)
\* C13: no call of local_mixing_step panics: the dispatch on the number of
\* active wires finds an implemented search, every id of the skeleton has
\* its gate in gate_map, and no walk over the graph exhausts the stack
C13_StepTotal ==
    /\ pc \notin {"unimplemented", "overflow"}
    /\ \A v \in DOMAIN skeleton_graph.nodes : skeleton_graph.nodes[v] \in DOMAIN gate_map

\* the lookups alone: every id of the skeleton has its gate in gate_map
GateMapLookupsSucceed ==
    \A v \in DOMAIN skeleton_graph.nodes : skeleton_graph.nodes[v] \in DOMAIN gate_map

\* the dispatch alone, on the runs whose convex sets are smaller than six
DispatchImplementedUpToFive ==
    params.ell_out <= 5 => pc # "unimplemented"

(***************************************************************************)
(* The job file.                                                           *)
(***************************************************************************)
\* C14: whenever the process has stopped, during a store or not, the job
\* file is absent or holds all the bytes of one stored job, so that the next
\* run loads a job and ObfuscationJob::load does not panic
C14_StoreAtomic ==
    /\ job_file # NoJob => (file_len = JobFieldCount /\ Deserialize(FileContents) = job_file)
    /\ dpc # "load_panic"

\* a file that was written to its end is read back as the job that was stored
CompleteFileLoads ==
    (job_file # NoJob /\ file_len = JobFieldCount) => Deserialize(FileContents) = job_file

(***************************************************************************)
(* The JSON form of a circuit.                                             *)
(***************************************************************************)
\* C15: a circuit converted to its PrettyCircuit and back is equal to the
\* circuit, whatever the ids of its gates
C15_PrettyRoundTrip ==
    (fn_input # <<>> /\ fn_output # <<>> /\ fn_output.fn = "pretty")
        => CircuitEq(fn_output.result, CircuitOf(fn_input))

\* the round trip keeps n and the target, controls and control function of
\* every gate in its place, and gives gate i the id i - 1; so it gives back
\* an equal circuit when the ids were 0 .. m-1 in sequence
PrettyRoundTripUpToIds ==
    (fn_input # <<>> /\ fn_output # <<>> /\ fn_output.fn = "pretty")
        => LET c == CircuitOf(fn_input)
               r == fn_output.result
           IN /\ r.n = c.n
              /\ Len(r.gates) = Len(c.gates)
              /\ \A i \in DOMAIN c.gates :
                    /\ r.gates[i].target = c.gates[i].target
                    /\ r.gates[i].controls = c.gates[i].controls
                    /\ r.gates[i].control_func = c.gates[i].control_func
                    /\ r.gates[i].id = i - 1
              /\ (\A i \in DOMAIN c.gates : c.gates[i].id = i - 1) => CircuitEq(r, c)

(***************************************************************************)
(* The check at the end of a stage.                                        *)
(***************************************************************************)
\* the controller leaves the loop of a stage and runs the block after it
EndOfStage == StageOver /\ dpc' # dpc

\* C16: the block at the end of a stage either aborts, and then leaves the
\* job file as it was, or goes on, and then the file holds the job with the
\* counter of the stage at its total; the controller aborts nowhere else
C16_AbortWithoutStore ==
    [][/\ (EndOfStage /\ dpc' = "abort") => UNCHANGED <<job_file, file_len>>
       /\ (EndOfStage /\ dpc' # "abort")
             => /\ job_file' = job' /\ file_len' = JobFieldCount
                /\ job'[StageCounter[1]] = job[StageCounter[2]]
       /\ (dpc' = "abort" /\ dpc # "abort") => EndOfStage]_vars

\* the kneading stage of a job was aborted after steps that changed the
\* circuit: the file holds an earlier job, not the one of the aborted stage
C16_Witness ==
    /\ dpc = "abort"
    /\ call.stage = "kneading"
    /\ job.curr_circuit > 0
    /\ job_file # NoJob
    /\ job_file # job

(***************************************************************************)
(* The end of the convex search.                                           *)
(***************************************************************************)
\* find_convex_fast is running: graph_level first, then the workers
InFindConvex == pc \in {"level", "convex"}

\* C17: every call of find_convex_fast ends; its workers together pop at
\* most max_iterations seeds from the pool and at most as many as the graph
\* has nodes; when the call returns None, no worker holds a set; and blah and
\* the ordering of the set found have a result wherever they are called, so
\* that the call is never stuck
C17_ConvexSearchEnds ==
    /\ [](pc = "convex" => /\ attempts <= MaxConvexIter
                            /\ attempts <= Len(skeleton_graph.nodes)
                            /\ attempts + Cardinality(nodes) <= Len(skeleton_graph.nodes))
    /\ [][(pc = "convex" /\ pc' = "loop")
             => (ConvexFound = {} /\ success' = "false")]_vars
    /\ [][(pc = "convex" /\ pc' \in {"repl", "unimplemented"}) => ConvexFound # {}]_vars
    /\ [](/\ \A w \in Workers :
                (pc = "convex" /\ cw[w].pc = "blah")
                   => Blah(params.ell_out, {cw[w].start_node}, skeleton_graph.edges, level) # {}
          /\ ConvexSomeReady
                => \E w \in ConvexFound :
                      DfsWithinConvexSet(cw[w].start_node, cw[w].return_set,
                          skeleton_graph.edges,
                          [visited |-> {}, top_sorted |-> <<>>, ovf |-> FALSE], {}) # {})
    /\ (InFindConvex ~> ~InFindConvex)

\* the workers have used up max_iterations on a graph with more nodes than
\* that, none found a set, and the call is about to return None
C17_Witness ==
    /\ pc = "convex"
    /\ \A w \in Workers : cw[w].pc = "done"
    /\ ConvexFound = {}
    /\ attempts = MaxConvexIter
    /\ nodes # {}

\* the bounds on the seeds of C17 on every skeleton a run reaches, those
\* after a splice included
ConvexAttemptsBounded ==
    pc = "convex" => /\ attempts <= MaxConvexIter
                     /\ attempts + Cardinality(nodes) <= Len(skeleton_graph.nodes)

(***************************************************************************)
(* Weak connectivity of the collision sets.                                *)
(***************************************************************************)
\* the connected components of the undirected graph under collision sets
Components(cs) ==
    LET both == {e \in (DOMAIN cs) \X (DOMAIN cs) :
                    e[2] \in cs[e[1]] \/ e[1] \in cs[e[2]]}
    IN {ReachableFrom(both, {v}) : v \in DOMAIN cs}

\* C18: on the collision sets of a circuit of at least one gate,
\* is_collisions_set_weakly_connected returns true exactly when the
\* undirected graph under the sets has one connected component
C18_WeaklyConnectedIffOneComponent ==
    (fn_input # <<>> /\ fn_output # <<>> /\ fn_output.fn = "weakly_connected")
        => (fn_output.result
               <=> Cardinality(Components(CircuitToCollisionSets(fn_input.gates))) = 1)

\* true on three gates of which the second is reached only against the
\* direction of its edge: the first and the second collide with the third
\* and not with each other
C18_Witness ==
    /\ fn_input # <<>> /\ fn_output # <<>>
    /\ fn_output.fn = "weakly_connected"
    /\ fn_output.result
    /\ CircuitToCollisionSets(fn_input.gates) = <<{3}, {3}, {}>>

\* the other side: false on three gates that fall into two components
DisconnectedRejected ==
    /\ fn_input # <<>> /\ fn_output # <<>>
    /\ fn_output.fn = "weakly_connected"
    /\ ~fn_output.result
    /\ CircuitToCollisionSets(fn_input.gates) = <<{2}, {}, {}>>

(***************************************************************************)
(* The skeleton graph of a circuit.                                        *)
(***************************************************************************)
\* C20: the graph of circuit_to_skeleton_graph has one node per gate, in the
\* order of the circuit and weighted with the id of the gate; its edges are
\* exactly the pairs (i, j) with i < j whose gates collide, the pairs implied
\* by other edges included; and no edge was added twice
C20_SkeletonGraph ==
    (fn_input # <<>> /\ fn_output # <<>> /\ fn_output.fn = "skeleton_graph")
        => LET c == fn_input.gates
               g == fn_output.result
               list == fn_output.edge_list
           IN /\ Len(g.nodes) = Len(c)
              /\ \A i \in DOMAIN c : g.nodes[i] = fn_input.ids[i]
              /\ g.edges = {e \in (DOMAIN c) \X (DOMAIN c) :
                               e[1] < e[2] /\ CheckCollision(c[e[1]], c[e[2]])}
              /\ SeqToSet(list) = g.edges
              /\ \A a, b \in DOMAIN list : a # b => list[a] # list[b]

\* three gates that collide pairwise, with ids that are not their places: the
\* edge from the first to the third is there next to the path over the second
C20_Witness ==
    /\ fn_input # <<>> /\ fn_output # <<>>
    /\ fn_output.fn = "skeleton_graph"
    /\ fn_output.result.edges = {<<1, 2>>, <<2, 3>>, <<1, 3>>}
    /\ fn_output.result.nodes = <<3, 4, 5>>
    /\ Len(fn_output.edge_list) = 3

(***************************************************************************)
(* The checkpoints.                                                        *)
(***************************************************************************)
\* an iteration of the loop of a stage: a call of run_local_mixing
LoopIteration ==
    dpc \in {"strategy1", "inflationary", "kneading"} /\ dpc' = dpc /\ ~StageOver

\* the circuit of a stored job is the one after the steps its counters count
\* (or after one more: the callback runs before the step of its call is counted)
CircuitOfStepsCounted(j) == j.curr_circuit \in {StepsCounted(j), StepsCounted(j) + 1}

\* C19: a call is in checkpoint mode exactly when the counter of its stage is
\* a multiple of checkpoint_steps; the loop stores the job only in such a
\* call, with the counter at that multiple, so that checkpoints with
\* different counters are a multiple of checkpoint_steps successful steps
\* apart; and the job that a checkpoint stores holds the circuit after the
\* steps that its counters count
C19_Checkpoints ==
    /\ [][LoopIteration
            => /\ call'.to_checkpoint
                     <=> (job[StageCounter[1]] % job.checkpoint_steps = 0)
               /\ job_file' # job_file
                     => /\ call'.to_checkpoint
                        /\ job_file'[StageCounter[1]] = job[StageCounter[1]]
                        /\ job_file'[StageCounter[1]] % job.checkpoint_steps = 0
                        /\ CircuitOfStepsCounted(job_file')]_vars

\* the same for the jobs that were not loaded from a file: they hold the
\* circuit of the steps counted whenever they are stored
CheckpointsOfNewJobs ==
    [][(~loaded' /\ job_file' # job_file /\ file_len' = JobFieldCount)
          => CircuitOfStepsCounted(job_file')]_vars

\* a call in checkpoint mode after a call that was not, in a job with
\* checkpoint_steps = 2 whose callback stored the job at the counter 2
CheckpointAfterTwoSteps ==
    /\ dpc = "kneading"
    /\ ~loaded
    /\ job.checkpoint_steps = 2
    /\ call.to_checkpoint
    /\ job_file.curr_inflationary_stage_steps = 2
    /\ job_file.curr_kneading_stage_steps = 0
    /\ job_file.curr_circuit = 3
    /\ job.curr_kneading_stage_steps = 1

\* a job of Strategy 2 was loaded with its two inflationary steps counted, and
\* a checkpoint of the kneading stage has stored it with them still counted
\* and a circuit that is at most one step away from the original circuit
ResumedCheckpointLosesSteps ==
    /\ dpc = "kneading"
    /\ loaded
    /\ call.stage = "kneading"
    /\ call.to_checkpoint
    /\ job_file.curr_inflationary_stage_steps = 2
    /\ job_file.curr_kneading_stage_steps = 0
    /\ job_file.curr_circuit <= 1
    /\ skeleton_steps <= 1

(***************************************************************************)
(* The topological orders of the skeleton of a circuit.                    *)
(***************************************************************************)
\* C21: the skeleton built from a circuit has a topological order, and the
\* gates in any of its topological orders give, on every input, the output
\* of the circuit in its own order
C21_TopologicalOrdersEquivalent ==
    (fn_input # <<>> /\ fn_output # <<>> /\ fn_output.fn = "topological_orders")
        => /\ fn_output.result # {}
           /\ \A c \in fn_output.result : SameFunction(c, fn_input.gates)

\* a circuit of three gates whose skeleton has an edge and more than one
\* topological order, one of which is not the order of the circuit
C21_Witness ==
    /\ fn_input # <<>> /\ fn_output # <<>>
    /\ fn_output.fn = "topological_orders"
    /\ Len(fn_input.gates) = 3
    /\ CircuitToCollisionSets(fn_input.gates) = <<{3}, {}, {}>>
    /\ Cardinality(fn_output.result) = 3

(***************************************************************************)
(* dfs.                                                                    *)
(***************************************************************************)
\* the nodes on some directed path from source to target
OnPaths(E, source, target) ==
    {v \in ReachableFrom(E, {source}) : target \in ReachableFrom(E, {v})}

\* C22: dfs from source with visited_with_path = {target} ends, and leaves
\* in visited_with_path the nodes that lie on some directed path from source
\* to target, or the target alone when there is no such path
C22_DfsCollectsPaths ==
    (fn_input # <<>> /\ fn_output # <<>> /\ fn_output.fn = "dfs")
        => LET on == OnPaths(fn_input.edges, fn_output.source, fn_output.target)
           IN /\ ~fn_output.result.ovf
              /\ fn_output.result.vwp = IF on = {} THEN {fn_output.target} ELSE on

\* all four nodes lie on paths to the target, and one of them is met a
\* second time, when it is already in visited and in visited_with_path
C22_Witness ==
    /\ fn_input # <<>> /\ fn_output # <<>>
    /\ fn_output.fn = "dfs"
    /\ fn_input.edges = {<<1, 2>>, <<2, 4>>, <<1, 3>>, <<3, 2>>}
    /\ fn_output.source = 1 /\ fn_output.target = 4
    /\ fn_output.result.vwp = {1, 2, 3, 4}

\* no path from the source to the target: the target alone
DfsWithoutPath ==
    /\ fn_input # <<>> /\ fn_output # <<>>
    /\ fn_output.fn = "dfs"
    /\ fn_input.edges = {<<1, 2>>, <<3, 4>>, <<1, 3>>}
    /\ fn_output.source = 2 /\ fn_output.target = 4
    /\ fn_output.result.vwp = {4}

(***************************************************************************)
(* The order of the convex set.                                            *)
(***************************************************************************)
\* the sequence is in topological order of the graph: no node of it is
\* reachable from a node that comes later in it
InTopologicalOrder(seq, E) ==
    \A i, j \in DOMAIN seq : i < j => seq[i] \notin Descendants(E, seq[j])

\* C23: the sequence that dfs_within_convex_set gives from the start node
\* and the set returned by find_convex_fast holds the nodes of the set, each
\* once, in topological order of the skeleton
C23_ConvexSetOrdered ==
    (pc = "repl" /\ cout # NoCout)
        => /\ SeqToSet(cout.top_sorted) = cout.subset
           /\ Len(cout.top_sorted) = Cardinality(cout.subset)
           /\ InTopologicalOrder(cout.top_sorted, skeleton_graph.edges)

\* the same for the sets that are convex
ConvexSetOrderedWhenConvex ==
    (pc = "repl" /\ cout # NoCout /\ IsConvex(skeleton_graph.edges, cout.subset))
        => /\ SeqToSet(cout.top_sorted) = cout.subset
           /\ Len(cout.top_sorted) = Cardinality(cout.subset)
           /\ InTopologicalOrder(cout.top_sorted, skeleton_graph.edges)

\* a convex set of three nodes was found and ordered
ConvexSetOfThreeOrdered ==
    /\ pc = "repl" /\ cout # NoCout
    /\ Cardinality(cout.subset) = 3
    /\ IsConvex(skeleton_graph.edges, cout.subset)

(***************************************************************************)
(* graph_level: the writes of the level array.                             *)
(***************************************************************************)
\* every worker of graph_level has left its loop
LevelWorkersExited == pc = "level" /\ \A w \in Workers : lw[w].pc = "exit"

\* C24: in graph_level no index of the level array is written twice, an
\* index is written only when the in-degree counter of its node is zero, and
\* when the workers have left every index has been written once
C24_WrittenOnce ==
    pc = "level"
        => /\ \A n \in NodeSet :
                /\ degree[n].writes <= 1
                /\ degree[n].writes = 1 => degree[n].deg = 0
           /\ LevelWorkersExited => \A n \in NodeSet : degree[n].writes = 1

\* the workers have left after both of them processed nodes of a skeleton
\* that has a node with three predecessors
C24_Witness ==
    /\ LevelWorkersExited
    /\ original_circuit = TwoSourceCircuit
    /\ \A n \in NodeSet : degree[n].writes = 1
    /\ level = <<0, 0, 1, 2, 1>>

\* every node has been taken from the stack or from a worker's next and
\* processed: nothing is left on the stack and every index has been written
AllNodesProcessed ==
    /\ stack = <<>>
    /\ \A n \in NodeSet : degree[n].writes = 1

\* C25: every call of graph_level comes to the point where all its workers
\* have left, with every node processed, whatever the interleaving and
\* although a worker leaves as soon as it sees the stack empty
C25_GraphLevelTerminates ==
    (pc = "level") ~> (LevelWorkersExited /\ AllNodesProcessed)

\* no worker leaves nodes behind: when all have left every node is processed
ExitedMeansProcessed == LevelWorkersExited => AllNodesProcessed

\* a worker has left on an empty stack while the other one holds a node and
\* nodes are still to be processed
C25_Witness ==
    /\ pc = "level"
    /\ \E w, v \in Workers :
          /\ lw[w].pc = "exit"
          /\ lw[v].pc # "exit"
          /\ stack = <<>>
          /\ lw[v].next # None \/ lw[v].todo # <<>>
    /\ \E n \in NodeSet : degree[n].writes = 0

(***************************************************************************)
(* find_convex_fast: the seed pool after a set was found.                  *)
(***************************************************************************)
\* C26: from the moment a worker of find_convex_fast has found a set the
\* seed pool is empty and stays empty, no worker draws a seed (a worker at
\* its draw stays there or leaves, a worker in its attempt keeps its seed),
\* and the set and start node the search returns are those of a worker that
\* found them
C26_PoolEmptiedOnSuccess ==
    [][(pc = "convex" /\ ConvexFound # {})
        => /\ nodes = {}
           /\ pc' = "convex"
                => /\ nodes' = {}
                   /\ attempts' = attempts
                   /\ \A w \in Workers :
                         /\ cw[w].pc = "pop" => cw'[w].pc \in {"pop", "done"}
                         /\ cw'[w].pc = "blah" => cw'[w].start_node = cw[w].start_node
           /\ pc' = "repl"
                => \E w \in ConvexFound : /\ cout'.subset = cw[w].return_set
                                          /\ cout'.start = cw[w].start_node]_vars

\* a worker has found a set while the other one is in the attempt whose seed
\* it drew before, and the pool had more seeds than the two drawn
C26_Witness ==
    /\ pc = "convex"
    /\ \E w \in ConvexFound, v \in Workers : v # w /\ cw[v].pc = "blah"
    /\ nodes = {}
    /\ Cardinality(NodeSet) > 2

(***************************************************************************)
(* The level pruning of dfs2.                                              *)
(***************************************************************************)
\* C27: on correct levels, for a convex set and a candidate of it, a closure
\* search of dfs2 that was not given up collects the nodes that dfs collects
\* from the same nodes with the same sets
C27_PruningKeepsClosure ==
    (fn_input # <<>> /\ fn_output # <<>> /\ fn_output.fn = "dfs2"
        /\ LevelsCorrect(fn_input.edges, fn_output.level)
        /\ IsConvex(fn_input.edges, fn_output.convex_set)
        /\ fn_output.pruned.ok)
        => /\ ~fn_output.pruned.ovf /\ ~fn_output.unpruned.ovf
           /\ fn_output.pruned.vwp = fn_output.unpruned.vwp

\* the same for every set, convex or not
PruningKeepsClosureOfAnySet ==
    (fn_input # <<>> /\ fn_output # <<>> /\ fn_output.fn = "dfs2" /\ fn_output.pruned.ok)
        => fn_output.pruned.vwp = fn_output.unpruned.vwp

\* a search that was not given up on a convex set from which a node other
\* than the candidate is reached whose level is not below the candidate's
C27_Witness ==
    /\ fn_input # <<>> /\ fn_output # <<>> /\ fn_output.fn = "dfs2"
    /\ IsConvex(fn_input.edges, fn_output.convex_set)
    /\ fn_output.pruned.ok
    /\ Cardinality(fn_output.convex_set) = 2
    /\ \E v \in ReachableFrom(fn_input.edges, fn_output.convex_set) \ fn_output.convex_set :
          /\ v # fn_output.candidate
          /\ fn_output.level[v] >= fn_output.level[fn_output.candidate]
          /\ v \notin fn_output.pruned.visited
          /\ v \in fn_output.unpruned.visited

(***************************************************************************)
(* The splice: its node sets and its edges.                                *)
(***************************************************************************)
\* the replacement search has returned a circuit: the splice is about to run
AtSplice == pc = "repl" /\ (\A w \in Workers : rw[w].pc = "done") /\ ReplFound # {}

\* the node sets and new edges of the splice of the circuit worker w found
PartsAtSplice(w) ==
    SpliceParts(skeleton_graph, gate_map, cout.subset,
                CInGates(rw[w].replacement_circuit, cout.new_to_old))

\* predecessors, successors and outsiders are pairwise disjoint, disjoint from
\* the subset S and from the nodes of C_in, and hold every other node
NodeSetsPartition(parts, S) ==
    LET cin_set == SeqToSet(parts.c_in_nodes)
    IN /\ parts.predecessors \cap parts.successors = {}
       /\ parts.predecessors \cap parts.outsiders = {}
       /\ parts.successors \cap parts.outsiders = {}
       /\ (parts.predecessors \cup parts.successors \cup parts.outsiders) \cap S = {}
       /\ (parts.predecessors \cup parts.successors \cup parts.outsiders) \cap cin_set = {}
       /\ parts.predecessors \cup parts.successors \cup parts.outsiders = NodeSet \ S

\* C28: when the splice runs, the predecessors, the successors and the
\* outsiders of the subset are pairwise disjoint, disjoint from the subset
\* and from the new nodes of C_in, and hold every old node outside the subset
C28_SpliceNodeSets ==
    AtSplice => \A w \in ReplFound :
                   ~PartsAtSplice(w).ovf => NodeSetsPartition(PartsAtSplice(w), cout.subset)

\* the same for the subsets that are convex
SpliceNodeSetsWhenConvex ==
    (AtSplice /\ IsConvex(skeleton_graph.edges, cout.subset))
        => \A w \in ReplFound :
              ~PartsAtSplice(w).ovf => NodeSetsPartition(PartsAtSplice(w), cout.subset)

\* a splice of a convex subset that has predecessors or successors, and an
\* outsider
ConvexSubsetSpliced ==
    /\ AtSplice
    /\ IsConvex(skeleton_graph.edges, cout.subset)
    /\ \E w \in ReplFound :
          /\ PartsAtSplice(w).predecessors \cup PartsAtSplice(w).successors # {}
          /\ PartsAtSplice(w).outsiders # {}

\* the edges of a graph as pairs of gate ids: a removal renumbers the nodes,
\* their ids stay
EdgeIds(g) == {<<g.nodes[e[1]], g.nodes[e[2]]>> : e \in g.edges}

IdsOf(g, V) == {g.nodes[v] : v \in V}

\* the nodes outside S from which a node of S is reached
AncestorsOf(E, S) == {v \in NodeSet \ S : ReachableFrom(E, {v}) \cap S # {}}

\* the nodes outside S reached from a node of S
DescendantsOf(E, S) == ReachableFrom(E, S) \ S

\* C29: a splice adds only edges between two gates of C_in, from the earlier
\* to the later one, edges from an ancestor or an outsider of the subset to a
\* gate of C_in, and edges from a gate of C_in to a descendant of the subset;
\* the edges between two nodes that stay are the same before and after it
C29_SpliceEdges ==
    [][(pc = "repl" /\ pc' \in {"loop", "panic"} /\ success' = "true")
        => LET E == skeleton_graph.edges
               S == cout.subset
               old == IdsOf(skeleton_graph, NodeSet \ S)
               anc == IdsOf(skeleton_graph, AncestorsOf(E, S))
               desc == IdsOf(skeleton_graph, DescendantsOf(E, S))
               outs == old \ (anc \cup desc)
               new == (latest_id + 1) .. latest_id'
           IN /\ SeqToSet(skeleton_graph'.nodes) = old \cup new
              /\ {e \in EdgeIds(skeleton_graph') : e[1] \in old /\ e[2] \in old}
                    = {e \in EdgeIds(skeleton_graph) : e[1] \in old /\ e[2] \in old}
              /\ \A e \in EdgeIds(skeleton_graph') :
                    (e[1] \in new \/ e[2] \in new)
                        => \/ e[1] \in new /\ e[2] \in new /\ e[1] < e[2]
                           \/ e[1] \in anc \cup outs /\ e[2] \in new
                           \/ e[1] \in new /\ e[2] \in desc]_vars

\* a step has returned true and left an edge from an old gate to a new one, an
\* edge from a new gate to an old one and an edge between two new gates
C29_Witness ==
    /\ pc = "loop"
    /\ success = "true"
    /\ mixing_steps = 1
    /\ LET old == 0 .. (Len(original_circuit) - 1)
       IN /\ \E e \in EdgeIds(skeleton_graph) : e[1] \in old /\ e[2] \notin old
          /\ \E e \in EdgeIds(skeleton_graph) : e[1] \notin old /\ e[2] \in old
          /\ \E e \in EdgeIds(skeleton_graph) : e[1] \notin old /\ e[2] \notin old

\* a step has returned true and an edge between two old gates is still there
OldEdgeKept ==
    /\ pc = "loop"
    /\ success = "true"
    /\ mixing_steps = 1
    /\ \E e \in EdgeIds(skeleton_graph) :
          e[1] < Len(original_circuit) /\ e[2] < Len(original_circuit)

(***************************************************************************)
(* The wire maps of local_mixing_step.                                     *)
(***************************************************************************)
\* the wires touched by the gates of the nodes of S
ActiveWiresOf(S) == UNION {{GateOf(v)[1], GateOf(v)[2], GateOf(v)[3]} : v \in S}

\* f and g are bijections between A and B, each the inverse of the other
MutuallyInverse(f, g, A, B) ==
    /\ DOMAIN f = A /\ DOMAIN g = B
    /\ \A a \in A : f[a] \in B /\ g[f[a]] = a
    /\ \A b \in B : g[b] \in A /\ f[g[b]] = b

\* C30: while the replacement of a subset S is sought and spliced in,
\* old_to_new and new_to_old are bijections between the active wires of S and
\* [0, omega), each the inverse of the other; and every gate that a step puts
\* into gate_map has its target and its controls among the active wires of S,
\* the target not among the controls
C30_WireMaps ==
    /\ []((pc = "repl" /\ cout # NoCout)
            => MutuallyInverse(cout.old_to_new, cout.new_to_old, ActiveWiresOf(cout.subset),
                               0 .. (Cardinality(ActiveWiresOf(cout.subset)) - 1)))
    /\ [][(pc = "repl" /\ pc' \in {"loop", "panic"} /\ success' = "true")
            => \A id \in (DOMAIN gate_map') \ (DOMAIN gate_map) :
                  LET g == gate_map'[id]
                  IN /\ {g[1], g[2], g[3]} \subseteq ActiveWiresOf(cout.subset)
                     /\ g[1] # g[2] /\ g[1] # g[3]]_vars

\* a circuit C_in was found for a subset whose active wires are not the
\* wires [0, omega) and whose wire map moves the target of a gate of C_in
C30_Witness ==
    /\ AtSplice
    /\ ActiveWiresOf(cout.subset) # 0 .. (Cardinality(ActiveWiresOf(cout.subset)) - 1)
    /\ \E w \in ReplFound : \E i \in DOMAIN rw[w].replacement_circuit :
          cout.new_to_old[rw[w].replacement_circuit[i][1]] # rw[w].replacement_circuit[i][1]

(***************************************************************************)
(* The step that returns false.                                            *)
(***************************************************************************)
\* C31: a call of local_mixing_step that returns false leaves the skeleton,
\* gate_map and latest_id as they were: the return itself changes none of
\* them, and the only step that changes any of them is the splice of a call
\* that returns true
C31_FalseLeavesGraph ==
    [][/\ StepFails => UNCHANGED graph_vars
       /\ graph_vars' # graph_vars => (pc = "repl" /\ success' = "true")]_vars

\* a call has returned false on a skeleton that an earlier call had spliced
C31_Witness ==
    /\ pc = "loop"
    /\ success = "false"
    /\ mixing_steps >= 1
    /\ latest_id > Len(original_circuit) - 1

(***************************************************************************)
(* The removal of the subset.                                              *)
(***************************************************************************)
\* C32: gate_map always holds exactly the ids of the nodes of the skeleton;
\* a step that returns true removes exactly the gates of the subset S, every
\* old node outside S keeps its index, its id and its gate, and the number of
\* nodes grows by ell_in - ell_out
C32_RemovalKeepsOthers ==
    /\ [](DOMAIN gate_map = SkeletonIds)
    /\ [][(pc = "repl" /\ pc' \in {"loop", "panic"} /\ success' = "true")
            => LET S == cout.subset
                   new == (latest_id + 1) .. latest_id'
               IN /\ SkeletonIds' = (SkeletonIds \ IdsOf(skeleton_graph, S)) \cup new
                  /\ new \cap SkeletonIds = {}
                  /\ Cardinality(new) = params.ell_in
                  /\ \A v \in NodeSet \ S :
                        /\ v \in DOMAIN skeleton_graph'.nodes
                        /\ skeleton_graph'.nodes[v] = skeleton_graph.nodes[v]
                        /\ gate_map'[skeleton_graph.nodes[v]] = gate_map[skeleton_graph.nodes[v]]
                  /\ Len(skeleton_graph'.nodes)
                        = Len(skeleton_graph.nodes) + params.ell_in - params.ell_out]_vars

\* a step has replaced one gate by three: the skeleton has two nodes more,
\* and the removed node was not the last of the old ones
C32_Witness ==
    /\ pc = "loop"
    /\ success = "true"
    /\ mixing_steps = 1
    /\ params.ell_in > params.ell_out
    /\ Len(skeleton_graph.nodes) = Len(original_circuit) + params.ell_in - params.ell_out
    /\ skeleton_graph.nodes[Len(original_circuit)] = Len(original_circuit) - 1

(***************************************************************************)
(* The nodes of the returned set.                                          *)
(***************************************************************************)
\* the nodes of S reached from start along edges between nodes of S
ReachableInside(E, S, start) ==
    ReachableFrom({e \in E : e[1] \in S /\ e[2] \in S}, {start})

\* C33: every node of the set find_convex_fast returned is reached from the
\* start node along edges inside the set; dfs_within_convex_set from the
\* start node lists every node of the set once, and C_out has ell_out gates
C33_SetReachedFromStart ==
    /\ pc = "convex"
          => \A w \in ConvexFound :
                ReachableInside(skeleton_graph.edges, cw[w].return_set, cw[w].start_node)
                    = cw[w].return_set
    /\ (pc = "repl" /\ cout # NoCout)
          => /\ cout.start \in cout.subset
             /\ ReachableInside(skeleton_graph.edges, cout.subset, cout.start) = cout.subset
             /\ \A v \in cout.subset :
                   Cardinality({i \in DOMAIN cout.top_sorted : cout.top_sorted[i] = v}) = 1
             /\ SeqToSet(cout.top_sorted) \subseteq cout.subset
             /\ Len(cout.c_out) = params.ell_out

\* a set of three nodes in which the start node has two successors
C33_Witness ==
    /\ pc = "repl" /\ cout # NoCout
    /\ Cardinality(cout.subset) = 3
    /\ Cardinality(Outgoing(skeleton_graph.edges, cout.start) \cap cout.subset) = 2
    /\ Len(cout.c_out) = 3

(***************************************************************************)
(* The number of active wires.                                             *)
(***************************************************************************)
\* 3 <= omega <= 2 * ell_out + 1 for the wires of the gates of S
OmegaInRange(S) ==
    /\ 3 <= Cardinality(ActiveWiresOf(S))
    /\ Cardinality(ActiveWiresOf(S)) <= 2 * params.ell_out + 1

SetWithMostWires ==
    /\ pc = "convex"
    /\ \E w \in ConvexFound : /\ Cardinality(cw[w].return_set) = 6
                               /\ Cardinality(ActiveWiresOf(cw[w].return_set)) = 13

(***************************************************************************)
(* The circuit of a continued job.                                         *)
(***************************************************************************)
\* the job is written whole to its file
JobStored == job_file' # job_file /\ file_len' = JobFieldCount

\* C35: a run that continues a job of the file goes on from the circuit of
\* that job, so the circuit of every job that is stored, in a checkpoint or at
\* the end of a stage, is the original circuit after the successful steps
\* that the counters of the job count, also in a run that was started again
C35_ResumesFromCurrentCircuit ==
    [][JobStored => CircuitOfStepsCounted(job_file')]_vars

\* the skeleton of a run that loaded a job is that of the circuit of the job
SkeletonOfLoadedCircuit ==
    [][(dpc = "start" /\ loaded') => skeleton_steps' = job'.curr_circuit]_vars

\* the same for the runs that start a new job
NewJobStoresItsCircuit ==
    [][(JobStored /\ ~loaded') => CircuitOfStepsCounted(job_file')]_vars

\* a run has loaded a job whose circuit is one step away from the original
\* circuit
JobWithStepsLoaded ==
    /\ loaded
    /\ dpc \in {"strategy1", "inflationary", "kneading"}
    /\ job_file.curr_circuit >= 1

(***************************************************************************)
(* The inputs of the probabilistic check.                                  *)
(***************************************************************************)
\* the check has been applied to the two circuits
EquivalenceChecked ==
    fn_input # <<>> /\ fn_output # <<>> /\ fn_output.fn = "check_probabilisitic_equivalence"

\* C36: the inputs that check_probabilisitic_equivalence can draw are all
\* the assignments of the n wires, those with wire n - 1 set included, and
\* the check fails exactly when a drawn input gives different outputs
C36_AllInputsDrawn ==
    EquivalenceChecked
        => /\ fn_output.range = SUBSET (0 .. (fn_input.n - 1))
           /\ fn_output.panics
                 <=> \E x \in fn_output.drawn :
                        Run(fn_input.circuit0, x) # Run(fn_input.circuit1, x)

\* the assert alone: the check fails exactly when a drawn input tells the
\* circuits apart, and the inputs drawn leave wire n - 1 at 0
AssertOnDrawnInputs ==
    EquivalenceChecked
        => /\ fn_output.range = SUBSET (0 .. (fn_input.n - 2))
           /\ fn_output.range = EquivalenceSamples(fn_input.n)
           /\ fn_output.panics
                 <=> \E x \in fn_output.drawn :
                        Run(fn_input.circuit0, x) # Run(fn_input.circuit1, x)

\* two circuits that differ, on inputs with wire n - 1 set only, have passed
\* the check on every input that can be drawn
DifferentCircuitsPass ==
    /\ EquivalenceChecked
    /\ ~SameFunction(fn_input.circuit0, fn_input.circuit1)
    /\ fn_output.drawn = fn_output.range
    /\ ~fn_output.panics


(***************************************************************************)
(* C37: the gates of sample_circuit_with_base_gate_fast                    *)
(***************************************************************************)

FastSampling ==
    /\ fn_input # <<>>
    /\ fn_output # <<>>
    /\ fn_output.fn = "sample_circuit_with_base_gate_fast"

\* a target and two controls in [0, n), no two of them equal
FastGateValid(g, n) ==
    /\ \A i \in 1 .. 3 : g[i] \in 0 .. (n - 1)
    /\ g[1] # g[2]
    /\ g[1] # g[3]
    /\ g[2] # g[3]

\* C37: for n <= 16, every gate that sample_circuit_with_base_gate_fast has
\* written has its target and its two controls in [0, n), the target is none
\* of the controls and the two controls differ, whatever bytes the RNG gave;
\* the values chosen so far for the gate being built are distinct, below n
\* and marked in set as well.
C37_FastGatesValid ==
    FastSampling =>
       /\ fn_input.n <= SetSlots
       /\ \A k \in 1 .. Len(fn_output.written) :
             FastGateValid(fn_output.written[k], fn_input.n)
       /\ \A i \in 1 .. Len(fn_output.picked) :
             /\ fn_output.picked[i] \in 0 .. (fn_input.n - 1)
             /\ fn_output.picked[i] \in fn_output.set
             /\ \A j \in 1 .. Len(fn_output.picked) :
                   i # j => fn_output.picked[i] # fn_output.picked[j]

\* two gates written for n = 3: the second one uses the wires the first one
\* used, and a byte with both nibbles marked was dropped on the way
C37_Witness ==
    /\ FastSampling
    /\ fn_input.n = 3
    /\ fn_input.gates = 2
    /\ fn_output.written = << <<0, 1, 2>>, <<2, 1, 0>> >>
    /\ fn_output.bytes = FastBytesCounted

\* a gate on the last of 16 wires
FastGateOnSixteenWires ==
    /\ FastSampling
    /\ fn_input.n = SetSlots
    /\ fn_output.written = << <<15, 0, 14>> >>

\* with fewer than three wires no gate is ever completed
FastNeedsThreeWires ==
    (FastSampling /\ fn_input.n < 3) => fn_output.written = <<>>

====
